---------------------------- MODULE Spec2Model ----------------------------
(***************************************************************************)
(* Resume builder backend: the AI-backed operations (ATS scoring, content  *)
(* enhancement, bullet points, suggestions, keyword analysis), the routes  *)
(* that call them, and the generate-resume / upload-resume routes with the *)
(* files they write.                                                       *)
(***************************************************************************)
EXTENDS Integers, Sequences, FiniteSets, TLC

(***************************************************************************)
(* Bounds of the model.                                                    *)
(***************************************************************************)
\* longest completion text, in tokens
MaxLen == 5

(***************************************************************************)
(* JSON values.  Every value carries its type in its field name, so that   *)
(* a number, a string, a list and a dict are never confused.               *)
(***************************************************************************)
Num(n) == [num |-> n]
Str(s) == [str |-> s]
Arr(q) == [arr |-> q]
Obj(f) == [obj |-> f]

IsNum(v) == DOMAIN v = {"num"}
IsArr(v) == DOMAIN v = {"arr"}
IsObj(v) == DOMAIN v = {"obj"}

\* the dict with no key
EmptyDict == [k \in {} |-> Num(0)]

\* d[k] = v of a Python dict
DictPut(d, k, v) == [x \in (DOMAIN d) \cup {k} |-> IF x = k THEN v ELSE d[x]]

(***************************************************************************)
(* Completions.  A completion is a text, modelled as a sequence of         *)
(* lexemes: the four brackets, the comma, a string literal ("w", which     *)
(* outside brackets is prose) and two object members: "s" is the member    *)
(* "score": 80 and "t" is the member "score": "high".  No lexeme is white  *)
(* space, so str.strip() has nothing to remove from a text.                *)
(***************************************************************************)
Tokens == {"{", "}", "[", "]", ",", "w", "s", "t"}

RECURSIVE SeqsUpTo(_, _)
SeqsUpTo(S, n) ==
    IF n = 0 THEN {<<>>}
    ELSE LET shorter == SeqsUpTo(S, n - 1)
         IN  shorter \cup {Append(q, x) : q \in {p \in shorter : Len(p) = n - 1}, x \in S}

Texts == SeqsUpTo(Tokens, MaxLen)

(***************************************************************************)
(* json.loads on a token sequence: a recursive-descent parse of one value  *)
(* that must consume the whole text.                                       *)
(***************************************************************************)
ParseFail == [ok |-> FALSE]
ParseOk(v, rest) == [ok |-> TRUE, val |-> v, rest |-> rest]

\* the member a member lexeme stands for
MemberKey(tok) == "score"
MemberVal(tok) == IF tok = "s" THEN Num(80) ELSE Str("high")

RECURSIVE ParseValue(_), ParseMembers(_, _, _), ParseElems(_, _, _)
\* mode: "first" (member/element or close), "sep" (comma or close), "next" (member/element)
ParseValue(s) ==
    IF s = <<>> THEN ParseFail
    ELSE CASE Head(s) = "w" -> ParseOk(Str("w"), Tail(s))
           [] Head(s) = "{" -> ParseMembers(Tail(s), EmptyDict, "first")
           [] Head(s) = "[" -> ParseElems(Tail(s), <<>>, "first")
           [] OTHER -> ParseFail

ParseMembers(s, acc, mode) ==
    IF s = <<>> THEN ParseFail
    ELSE CASE Head(s) = "}" /\ mode \in {"first", "sep"} -> ParseOk(Obj(acc), Tail(s))
           [] Head(s) = "," /\ mode = "sep" -> ParseMembers(Tail(s), acc, "next")
           [] Head(s) \in {"s", "t"} /\ mode \in {"first", "next"} ->
                ParseMembers(Tail(s), DictPut(acc, MemberKey(Head(s)), MemberVal(Head(s))), "sep")
           [] OTHER -> ParseFail

ParseElems(s, acc, mode) ==
    IF s = <<>> THEN ParseFail
    ELSE CASE Head(s) = "]" /\ mode \in {"first", "sep"} -> ParseOk(Arr(acc), Tail(s))
           [] Head(s) = "," /\ mode = "sep" -> ParseElems(Tail(s), acc, "next")
           [] Head(s) \in {"w", "{", "["} /\ mode \in {"first", "next"} ->
                LET e == ParseValue(s)
                IN  IF e.ok THEN ParseElems(e.rest, Append(acc, e.val), "sep") ELSE ParseFail
           [] OTHER -> ParseFail

\* json.loads: the parsed value, or ParseFail for json.JSONDecodeError
JsonLoads(s) ==
    LET p == ParseValue(s)
    IN  IF p.ok /\ p.rest = <<>> THEN p ELSE ParseFail

(***************************************************************************)
(* re.search(r'\{.*\}', text, re.DOTALL): the span from the first opening  *)
(* bracket to the last closing bracket after it, or NoMatch.               *)
(***************************************************************************)
NoMatch == <<>>

Positions(text, tok) == {i \in 1..Len(text) : text[i] = tok}

Min(S) == CHOOSE x \in S : \A y \in S : x <= y
Max(S) == CHOOSE x \in S : \A y \in S : x >= y

\* the search with a lazy .*?: the span ends at the first closing bracket
ReSearch_Lazy(open, close, text) ==
    LET starts == {i \in Positions(text, open) : \E j \in Positions(text, close) : j > i}
    IN  IF starts = {} THEN NoMatch
        ELSE LET i == Min(starts)
                 j == Min({k \in Positions(text, close) : k > i})
             IN  SubSeq(text, i, j)

ReSearch(open, close, text) ==
    LET starts == {i \in Positions(text, open) : \E j \in Positions(text, close) : j > i}
    IN  IF starts = {} THEN NoMatch
        ELSE LET i == Min(starts)
                 j == Max(Positions(text, close))
             IN  SubSeq(text, i, j)

(***************************************************************************)
(* One call of self.model.generate_content(prompt) followed by             *)
(* response.text: it raises, or it gives a text.  An operation looks at a  *)
(* text only through re.search and json.loads, so a call is kept as what   *)
(* those two give for each bracket pair.                                   *)
(***************************************************************************)
Extract(open, close, text) ==
    LET m == ReSearch(open, close, text)
    IN  IF m = NoMatch THEN [matched |-> FALSE]
        ELSE [matched |-> TRUE, loads |-> JsonLoads(m)]

CallRaised == [exc |-> "ServiceError"]
CallText(text) == [exc |-> "none",
                   braces |-> Extract("{", "}", text),
                   brackets |-> Extract("[", "]", text)]

\* every outcome of one AI call
AICalls == {CallRaised} \cup {CallText(t) : t \in Texts}

\* what kind of completion a call gave, for the patterns of one call site
Kind(call, site) ==
    IF call.exc # "none" THEN "error"
    ELSE IF ~call[site].matched THEN "nospan"
    ELSE IF ~call[site].loads.ok THEN "badspan"
    ELSE "parsed"

\* the parsed payload of a call of kind "parsed"
Payload(call, site) == call[site].loads.val

(***************************************************************************)
(* Python control flow: a call returns a value or raises an exception.     *)
(***************************************************************************)
Return(v) == [exc |-> "none", val |-> v]
Raise(e) == [exc |-> e]
Raised(r) == r.exc # "none"

\* try: body / except json.JSONDecodeError: onJson / except Exception: onOther
TryExcept(body, onJson, onOther) ==
    IF body.exc = "none" THEN body
    ELSE IF body.exc = "JSONDecodeError" THEN onJson
    ELSE onOther

\* the statements of a try block shared by the call sites: the AI call, the
\* search, and json.loads of the span; noMatch is the else branch's return
SearchAndLoad(call, site, noMatch) ==
    IF call.exc # "none" THEN Raise(call.exc)
    ELSE IF call[site].matched
         THEN IF call[site].loads.ok THEN Return(call[site].loads.val)
              ELSE Raise("JSONDecodeError")
         ELSE noMatch

\* d[key] of a dict: the value, or KeyError
Subscript(d, key) == IF key \in DOMAIN d.obj THEN Return(d.obj[key]) ELSE Raise("KeyError")
\* d.get(key, default)
DictGet(d, key, default) == IF key \in DOMAIN d.obj THEN d.obj[key] ELSE default

(***************************************************************************)
(* ATSScorer                                                               *)
(***************************************************************************)
DefaultScoreValue == 65

\* ATSScorer._get_default_score
DefaultScore ==
    Obj([score |-> Num(DefaultScoreValue),
         missing_keywords |-> Arr(<<Str("achievement metrics"), Str("action verbs"),
                                    Str("relevant certifications"), Str("quantifiable results")>>),
         suggestions |-> Arr(<<Str("Add quantifiable achievements with numbers/percentages"),
                               Str("Use strong action verbs (Led, Developed, Implemented, etc.)"),
                               Str("Include relevant keywords from job description"),
                               Str("Ensure clear section headers (Experience, Education, Skills)"),
                               Str("Keep formatting simple and ATS-friendly (no tables or graphics)")>>),
         sections_analysis |->
             Obj([contact_info |-> Obj([score |-> Num(85), issues |-> Arr(<<>>)]),
                  experience |-> Obj([score |-> Num(70),
                                      issues |-> Arr(<<Str("Add more quantifiable results"),
                                                       Str("Use stronger action verbs")>>)]),
                  education |-> Obj([score |-> Num(80), issues |-> Arr(<<>>)]),
                  skills |-> Obj([score |-> Num(60),
                                  issues |-> Arr(<<Str("Add more relevant technical skills"),
                                                   Str("Include industry keywords")>>)])]),
         summary |-> Str("Resume has moderate ATS compatibility. Focus on quantifiable achievements and relevant keywords.")])

\* calculate_ats_score with only the JSON handler: another exception escapes
CalculateAtsScore_JsonHandlerOnly(call) ==
    LET body == SearchAndLoad(call, "braces", Return(DefaultScore))
    IN  TryExcept(body, Return(DefaultScore), body)

\* calculate_ats_score filling the fields a parsed payload lacks from the default
CalculateAtsScore_FillFromDefault(call) ==
    LET body == SearchAndLoad(call, "braces", Return(DefaultScore))
    IN  IF body.exc = "none" /\ IsObj(body.val)
        THEN Return(Obj([k \in DOMAIN DefaultScore.obj \cup DOMAIN body.val.obj |->
                           IF k \in DOMAIN body.val.obj THEN body.val.obj[k]
                           ELSE DefaultScore.obj[k]]))
        ELSE Return(DefaultScore)

\* ATSScorer.calculate_ats_score, given the outcome of its AI call
CalculateAtsScore(call) ==
    TryExcept(SearchAndLoad(call, "braces", Return(DefaultScore)),
              Return(DefaultScore),
              Return(DefaultScore))

EmptyKeywords ==
    Obj([resume_keywords |-> Arr(<<>>), job_keywords |-> Arr(<<>>),
         matched_keywords |-> Arr(<<>>), missing_keywords |-> Arr(<<>>),
         unique_resume_keywords |-> Arr(<<>>)])

\* analyze_keywords with a handler that raises the exception again
AnalyzeKeywords_Reraises(call) ==
    LET body == SearchAndLoad(call, "braces", Raise("fallthrough"))
    IN  IF body.exc \in {"none", "JSONDecodeError"} THEN body
        ELSE IF body.exc = "fallthrough" THEN Return(EmptyKeywords)
        ELSE body

\* ATSScorer.analyze_keywords: the try block returns only a parsed span; a
\* text without a span and every exception fall through to the final return
AnalyzeKeywords(call) ==
    LET body == SearchAndLoad(call, "braces", Raise("fallthrough"))
    IN  IF body.exc = "none" THEN body ELSE Return(EmptyKeywords)

(***************************************************************************)
(* f"{x:.1f}" of the rational n/d (d > 0, n >= 0): rounded to one decimal, *)
(* a tie going to the even digit.                                          *)
(***************************************************************************)
Tenths(n, d) ==
    LET q == (10 * n) \div d
        r == (10 * n) % d
    IN  IF 2 * r > d \/ (2 * r = d /\ q % 2 = 1) THEN q + 1 ELSE q

Fmt1(n, d) ==
    LET t == Tenths(n, d)
    IN  ToString(t \div 10) \o "." \o ToString(t % 10)

\* compare_scores with the top tier starting at a gain of 30
CompareScores_TierFrom30(original, enhanced) ==
    IF ~IsNum(original) \/ ~IsNum(enhanced) THEN Raise("TypeError")
    ELSE LET diff == enhanced.num - original.num
         IN  Return(Arr(
               IF diff >= 30 THEN
                 <<Str("Excellent improvement! Score increased by " \o Fmt1(diff, 1)
                       \o " points (" \o (IF original.num > 0 THEN Fmt1(diff * 100, original.num) ELSE "0.0") \o "%)"),
                   Str("Your resume is now highly optimized for ATS systems")>>
               ELSE IF diff > 15 THEN
                 <<Str("Great improvement! Score increased by " \o Fmt1(diff, 1) \o " points"),
                   Str("Resume is much more ATS-compatible now")>>
               ELSE IF diff > 5 THEN
                 <<Str("Good improvement! Score increased by " \o Fmt1(diff, 1) \o " points"),
                   Str("Resume quality has been enhanced")>>
               ELSE IF diff >= 0 THEN
                 <<Str("Score adjusted by " \o Fmt1(diff, 1) \o " points")>>
               ELSE
                 <<Str("Score maintained from original version")>>))

\* compare_scores giving the gain as a percentage of the gain left to make
CompareScores_PercentOfHeadroom(original, enhanced) ==
    IF ~IsNum(original) \/ ~IsNum(enhanced) THEN Raise("TypeError")
    ELSE LET diff == enhanced.num - original.num
         IN  Return(Arr(
               IF diff > 30 THEN
                 <<Str("Excellent improvement! Score increased by " \o Fmt1(diff, 1)
                       \o " points (" \o (IF original.num < 100 /\ original.num > 0
                                          THEN Fmt1(diff * 100, 100 - original.num) ELSE "0.0") \o "%)"),
                   Str("Your resume is now highly optimized for ATS systems")>>
               ELSE IF diff > 15 THEN
                 <<Str("Great improvement! Score increased by " \o Fmt1(diff, 1) \o " points"),
                   Str("Resume is much more ATS-compatible now")>>
               ELSE IF diff > 5 THEN
                 <<Str("Good improvement! Score increased by " \o Fmt1(diff, 1) \o " points"),
                   Str("Resume quality has been enhanced")>>
               ELSE IF diff >= 0 THEN
                 <<Str("Score adjusted by " \o Fmt1(diff, 1) \o " points")>>
               ELSE
                 <<Str("Score maintained from original version")>>))

\* compare_scores dividing by the original score whatever it is
CompareScores_AlwaysDivides(original, enhanced) ==
    IF ~IsNum(original) \/ ~IsNum(enhanced) THEN Raise("TypeError")
    ELSE IF original.num = 0 THEN Raise("ZeroDivisionError")
    ELSE LET diff == enhanced.num - original.num
         IN  Return(Arr(
               IF diff > 30 THEN
                 <<Str("Excellent improvement! Score increased by " \o Fmt1(diff, 1)
                       \o " points (" \o (IF original.num > 0 THEN Fmt1(diff * 100, original.num) ELSE "0.0") \o "%)"),
                   Str("Your resume is now highly optimized for ATS systems")>>
               ELSE IF diff > 15 THEN
                 <<Str("Great improvement! Score increased by " \o Fmt1(diff, 1) \o " points"),
                   Str("Resume is much more ATS-compatible now")>>
               ELSE IF diff > 5 THEN
                 <<Str("Good improvement! Score increased by " \o Fmt1(diff, 1) \o " points"),
                   Str("Resume quality has been enhanced")>>
               ELSE IF diff >= 0 THEN
                 <<Str("Score adjusted by " \o Fmt1(diff, 1) \o " points")>>
               ELSE
                 <<Str("Score maintained from original version")>>))

\* ATSScorer.compare_scores on two JSON values; the messages are given
\* without their leading pictograph
CompareScores(original, enhanced) ==
    IF ~IsNum(original) \/ ~IsNum(enhanced) THEN Raise("TypeError")
    ELSE LET o == original.num
             diff == enhanced.num - o
             pct == IF o > 0 THEN Fmt1(IF diff > 0 THEN diff * 100 ELSE 0, o) ELSE "0.0"
         IN  Return(Arr(
               IF diff > 30 THEN
                 <<Str("Excellent improvement! Score increased by " \o Fmt1(diff, 1)
                       \o " points (" \o pct \o "%)"),
                   Str("Your resume is now highly optimized for ATS systems")>>
               ELSE IF diff > 15 THEN
                 <<Str("Great improvement! Score increased by " \o Fmt1(diff, 1) \o " points"),
                   Str("Resume is much more ATS-compatible now")>>
               ELSE IF diff > 5 THEN
                 <<Str("Good improvement! Score increased by " \o Fmt1(diff, 1) \o " points"),
                   Str("Resume quality has been enhanced")>>
               ELSE IF diff >= 0 THEN
                 <<Str("Score adjusted by " \o Fmt1(diff, 1) \o " points")>>
               ELSE
                 <<Str("Score maintained from original version")>>))

(***************************************************************************)
(* AIEnhancer                                                              *)
(***************************************************************************)
\* enhance_resume_content answering a span that does not parse with an empty record
EnhanceResumeContent_EmptyOnBadSpan(resume_data, call) ==
    TryExcept(SearchAndLoad(call, "braces", Return(resume_data)),
              Return(Obj(EmptyDict)),
              Return(resume_data))

\* enhance_resume_content answering a failed AI call with an empty record
EnhanceResumeContent_EmptyOnError(resume_data, call) ==
    TryExcept(SearchAndLoad(call, "braces", Return(resume_data)),
              Return(resume_data),
              Return(Obj(EmptyDict)))

\* AIEnhancer.enhance_resume_content; json.dumps(resume_data) in the prompt
\* cannot fail on a dict decoded from a JSON request body
EnhanceResumeContent(resume_data, call) ==
    TryExcept(SearchAndLoad(call, "braces", Return(resume_data)),
              Return(resume_data),
              Return(resume_data))

\* enhance_bullet_points answering a failed AI call with the empty list
EnhanceBulletPoints_EmptyOnError(bullet_points, call) ==
    TryExcept(SearchAndLoad(call, "brackets", Return(bullet_points)),
              Return(bullet_points),
              Return(Arr(<<>>)))

\* enhance_bullet_points without the handler of json.JSONDecodeError
EnhanceBulletPoints_RaisesOnBadSpan(bullet_points, call) ==
    LET body == SearchAndLoad(call, "brackets", Return(bullet_points))
    IN  TryExcept(body, body, Return(bullet_points))

\* AIEnhancer.enhance_bullet_points
EnhanceBulletPoints(bullet_points, call) ==
    TryExcept(SearchAndLoad(call, "brackets", Return(bullet_points)),
              Return(bullet_points),
              Return(bullet_points))

CannedSuggestions ==
    Arr(<<Str("Add more quantifiable achievements with metrics"),
          Str("Use stronger action verbs for better impact"),
          Str("Include relevant industry keywords"),
          Str("Keep formatting simple and ATS-friendly"),
          Str("Tailor content to target position")>>)

\* suggest_improvements answering a span that does not parse with the canned list
SuggestImprovements_CannedOnBadSpan(call) ==
    TryExcept(SearchAndLoad(call, "brackets", Return(CannedSuggestions)),
              Return(CannedSuggestions),
              Return(Arr(<<>>)))

\* AIEnhancer.suggest_improvements
SuggestImprovements(call) ==
    TryExcept(SearchAndLoad(call, "brackets", Return(CannedSuggestions)),
              Return(Arr(<<>>)),
              Return(Arr(<<>>)))

(***************************************************************************)
(* Request inputs.                                                         *)
(***************************************************************************)
\* the two requests that may be in progress together
Reqs == {1, 2}

ResumeA == Obj([summary |-> Str("engineer")])
ResumeB == Obj([summary |-> Str("designer"), skills |-> Arr(<<Str("python")>>)])
EmptyResume == Obj(EmptyDict)
\* a JSON body that is a dict but no resume: skills is a number
BadResume == Obj([skills |-> Num(5)])

\* Python's truth value of a dict or a list
Truthy(v) == IF IsObj(v) THEN DOMAIN v.obj # {} ELSE v.arr # <<>>

\* form fields: absent (None), or a text of blanks and letters
FormNone == [none |-> TRUE]
FormText(q) == [text |-> q]
FormTexts == {FormText(q) : q \in SeqsUpTo({" ", "a"}, 2)}

\* the characters str.strip() removes and \s matches
Whitespace == {" ", "\t", "\n", "\r"}

RECURSIVE StripLeft(_)
StripLeft(q) == IF q # <<>> /\ Head(q) \in Whitespace THEN StripLeft(Tail(q)) ELSE q
RECURSIVE StripRight(_)
StripRight(q) ==
    IF q # <<>> /\ q[Len(q)] \in Whitespace THEN StripRight(SubSeq(q, 1, Len(q) - 1)) ELSE q
\* str.strip()
StripWs(q) == StripRight(StripLeft(q))

\* not resume_text or resume_text.strip() == ""
BlankForm(f) ==
    IF "text" \notin DOMAIN f THEN TRUE
    ELSE f.text = <<>> \/ StripWs(f.text) = <<>>

BulletLists == {Arr(<<>>), Arr(<<Str("built api")>>), Arr(<<Str("built api"), Str("led team")>>)}

Templates == {"template1"}
Formats == {"docx", "pdf", "txt"}

\* upload file names, as stem and extension
UploadNames == {<<"cv", ".pdf">>, <<"cv", ".txt">>, <<"cv", ".PDF">>}
\* str.endswith
EndsWith(name, suffix) == name[Len(name)] = suffix

(***************************************************************************)
(* Texts.  A str is the sequence of its characters.                        *)
(***************************************************************************)
RECURSIVE Chars(_)
Chars(s) == IF s = "" THEN <<>> ELSE <<Head(s)>> \o Chars(Tail(s))

UpperCase == Chars("ABCDEFGHIJKLMNOPQRSTUVWXYZ")
LowerCase == Chars("abcdefghijklmnopqrstuvwxyz")

\* str.lower()
LowerOf == [c \in {UpperCase[i] : i \in DOMAIN UpperCase} |->
              LowerCase[CHOOSE i \in DOMAIN UpperCase : UpperCase[i] = c]]
LowerChar(c) == IF c \in DOMAIN LowerOf THEN LowerOf[c] ELSE c
Lower(text) == [i \in DOMAIN text |-> LowerChar(text[i])]

\* keyword in text
Contains(text, keyword) ==
    \E i \in 0..(Len(text) - Len(keyword)) :
        \A m \in DOMAIN keyword : text[i + m] = keyword[m]

\* text.split('\n')
RECURSIVE SplitLines(_)
SplitLines(text) ==
    LET nl == {i \in DOMAIN text : text[i] = "\n"}
    IN  IF nl = {} THEN <<text>>
        ELSE <<SubSeq(text, 1, Min(nl) - 1)>> \o SplitLines(SubSeq(text, Min(nl) + 1, Len(text)))

\* '\n'.join(lines)
RECURSIVE JoinLines(_)
JoinLines(lines) ==
    IF lines = <<>> THEN <<>>
    ELSE IF Len(lines) = 1 THEN lines[1]
    ELSE lines[1] \o Chars("\n") \o JoinLines(Tail(lines))

(***************************************************************************)
(* PDFParser.extract_sections: the line scan.                              *)
(***************************************************************************)
\* the keys of section_keywords, in the order the dict is iterated
SectionOrder == <<"education", "experience", "skills", "projects", "certifications", "summary">>
SectionNames == {SectionOrder[i] : i \in DOMAIN SectionOrder}

section_keywords ==
    [education |->
        <<Chars("education"),
          Chars("academic"),
          Chars("qualification"),
          Chars("degree"),
          Chars("university")>>,
     experience |->
        <<Chars("experience"),
          Chars("work history"),
          Chars("employment"),
          Chars("professional experience")>>,
     skills |->
        <<Chars("skills"),
          Chars("technical skills"),
          Chars("competencies"),
          Chars("abilities")>>,
     projects |->
        <<Chars("projects"),
          Chars("portfolio"),
          Chars("work samples")>>,
     certifications |->
        <<Chars("certifications"),
          Chars("certificates"),
          Chars("licenses"),
          Chars("awards")>>,
     summary |->
        <<Chars("summary"),
          Chars("objective"),
          Chars("professional summary"),
          Chars("about"),
          Chars("profile")>>]

\* len(line_lower) < 50
LineLimit == 50

\* the test for a section line without the limit on the length of the line
LineSection_AnyLength(line) ==
    LET line_lower == StripWs(Lower(line))
        hits == {i \in DOMAIN SectionOrder :
                    \E k \in DOMAIN section_keywords[SectionOrder[i]] :
                        Contains(line_lower, section_keywords[SectionOrder[i]][k])}
    IN  IF hits = {} THEN "none" ELSE SectionOrder[Min(hits)]

\* the section whose keywords a line is found to start, or "none"
LineSection(line) ==
    LET line_lower == StripWs(Lower(line))
        hits == {i \in DOMAIN SectionOrder :
                    /\ \E k \in DOMAIN section_keywords[SectionOrder[i]] :
                          Contains(line_lower, section_keywords[SectionOrder[i]][k])
                    /\ Len(line_lower) < LineLimit}
    IN  IF hits = {} THEN "none" ELSE SectionOrder[Min(hits)]

\* saving a section by adding the lines to the value the section has
SaveSection_Appends(sections, current_section, section_content) ==
    IF current_section # "none" /\ section_content # <<>>
    THEN [sections EXCEPT ![current_section] =
              IF @ = <<>> THEN JoinLines(section_content)
              ELSE @ \o Chars("\n") \o JoinLines(section_content)]
    ELSE sections

\* if current_section and section_content: sections[current_section] = '\n'.join(...)
SaveSection(sections, current_section, section_content) ==
    IF current_section # "none" /\ section_content # <<>>
    THEN [sections EXCEPT ![current_section] = JoinLines(section_content)]
    ELSE sections

\* the loop keeping the line that starts a section as the section's first line
ScanLine_KeepsBoundaryLine(st, line) ==
    LET found == LineSection(line)
    IN  IF found # "none"
        THEN [sections |-> SaveSection(st.sections, st.current_section, st.section_content),
              current_section |-> found,
              section_content |-> <<line>>]
        ELSE IF st.current_section # "none" /\ StripWs(line) # <<>>
        THEN [st EXCEPT !.section_content = Append(@, line)]
        ELSE st

\* one turn of the loop over the lines
ScanLine(st, line) ==
    LET found == LineSection(line)
    IN  IF found # "none"
        THEN [sections |-> SaveSection(st.sections, st.current_section, st.section_content),
              current_section |-> found,
              section_content |-> <<>>]
        ELSE IF st.current_section # "none" /\ StripWs(line) # <<>>
        THEN [st EXCEPT !.section_content = Append(@, line)]
        ELSE st

RECURSIVE ScanLines(_, _)
ScanLines(lines, st) ==
    IF lines = <<>> THEN st ELSE ScanLines(Tail(lines), ScanLine(st, Head(lines)))

ExtractSections(text) ==
    LET st == ScanLines(SplitLines(text),
                        [sections |-> [s \in SectionNames |-> <<>>],
                         current_section |-> "none",
                         section_content |-> <<>>])
    IN  SaveSection(st.sections, st.current_section, st.section_content)

(***************************************************************************)
(* helpers.extract_text_sections: one anchored regular expression for each *)
(* section, searched with re.IGNORECASE | re.DOTALL.  An alternative of a    *)
(* pattern is kept as its words, which \s+ separates.                      *)
(***************************************************************************)
section_patterns ==
    [summary |->
        [headers |-> <<<<Chars("professional"), Chars("summary")>>,
                       <<Chars("objective")>>,
                       <<Chars("about")>>,
                       <<Chars("profile")>>>>,
         stops |-> <<<<Chars("professional"), Chars("experience")>>,
                     <<Chars("education")>>,
                     <<Chars("skills")>>,
                     <<Chars("projects")>>,
                     <<Chars("certification")>>>>],
     experience |->
        [headers |-> <<<<Chars("professional"), Chars("experience")>>,
                       <<Chars("work"), Chars("history")>>,
                       <<Chars("employment")>>>>,
         stops |-> <<<<Chars("education")>>,
                     <<Chars("skills")>>,
                     <<Chars("projects")>>,
                     <<Chars("certification")>>>>],
     education |->
        [headers |-> <<<<Chars("education")>>,
                       <<Chars("academic")>>>>,
         stops |-> <<<<Chars("skills")>>,
                     <<Chars("projects")>>,
                     <<Chars("certification")>>>>],
     skills |->
        [headers |-> <<<<Chars("skills")>>,
                       <<Chars("technical"), Chars("skills")>>>>,
         stops |-> <<<<Chars("projects")>>,
                     <<Chars("certification")>>>>],
     projects |->
        [headers |-> <<<<Chars("projects")>>,
                       <<Chars("portfolio")>>,
                       <<Chars("work"), Chars("samples")>>>>,
         stops |-> <<<<Chars("certification")>>>>],
     certifications |->
        [headers |-> <<<<Chars("certification")>>,
                       <<Chars("license")>>>>,
         stops |-> <<>>]]

\* the offset after a match of the words at offset i of the text, or -1
RECURSIVE MatchWordsAt(_, _, _)
MatchWordsAt(text, i, words) ==
    LET w == Head(words)
        j == i + Len(w)
        run == {n \in 0..(Len(text) - j) :
                   \A m \in 1..n : text[j + m] \in Whitespace}
        k == j + Max(run)
    IN  IF j > Len(text) THEN -1
        ELSE IF \E m \in DOMAIN w : LowerChar(text[i + m]) # w[m] THEN -1
        ELSE IF Len(words) = 1 THEN j
        ELSE IF k = j THEN -1
        ELSE MatchWordsAt(text, k, Tail(words))

\* the first alternative, in the order written, that matches at offset i
FirstAlt(text, i, alts) ==
    LET ok == {a \in DOMAIN alts : MatchWordsAt(text, i, alts[a]) >= 0}
    IN  IF ok = {} THEN -1 ELSE MatchWordsAt(text, i, alts[Min(ok)])

\* (?=(?:stop|...|$)): a stop word follows, or the text ends here, or only
\* its last newline follows
Lookahead(text, j, stops) ==
    \/ FirstAlt(text, j, stops) >= 0
    \/ j = Len(text)
    \/ j = Len(text) - 1 /\ text[Len(text)] = "\n"

\* re.search(pattern, text): the leftmost match; group 1 is as short as the
\* lookahead allows.  The result is match.group(1), or NoMatch
SearchSection(text, section) ==
    LET p == section_patterns[section]
        at == {i \in 0..Len(text) : FirstAlt(text, i, p.headers) >= 0}
        start == FirstAlt(text, Min(at), p.headers)
        stop == Min({j \in start..Len(text) : Lookahead(text, j, p.stops)})
    IN  IF at = {} THEN NoMatch ELSE <<SubSeq(text, start + 1, stop)>>

\* the anchored extraction giving only the sections it matched
ExtractTextSections_MatchedOnly(text) ==
    [s \in {x \in SectionNames : SearchSection(text, x) # NoMatch} |->
        StripWs(SearchSection(text, s)[1])]

ExtractTextSections(text) ==
    [s \in SectionNames |->
        LET match == SearchSection(text, s)
        IN  IF match = NoMatch THEN <<>> ELSE StripWs(match[1])]

(***************************************************************************)
(* Resume texts: up to MaxLines lines, joined by newlines.                 *)
(***************************************************************************)
MaxLines == 3

ResumeLines ==
    {Chars("Education"),
     Chars("Professional Summary"),
     Chars("Skills"),
     Chars("  BSc "),
     <<>>,
     Chars("A line that mentions education but has fifty chars")}

ResumeTexts == {JoinLines(ls) : ls \in SeqsUpTo(ResumeLines, MaxLines)}

\* a content line that no keyword of either algorithm occurs in
ContentLine == Chars("AWS")

\* a line of fifty characters with a keyword of a section
LongLine == Chars("A line that mentions education but has fifty chars")

\* longer resumes: sections in a row; a section started three times; lines
\* with keywords of two sections and a long line
SampleTexts ==
    {JoinLines(<<ContentLine, Chars("Education"), Chars("  BSc "), ContentLine, Chars("Employment"), ContentLine>>),
     JoinLines(<<Chars("Professional Summary"), ContentLine, <<>>, Chars("  BSc "), Chars("Education"), Chars("Skills")>>),
     JoinLines(<<Chars("Education"), Chars("  BSc "), <<>>, Chars("Education"), ContentLine, Chars("Education")>>),
     JoinLines(<<Chars("Skills and Education"), ContentLine, LongLine, Chars("Experience Summary"), Chars("  BSc ")>>)}

\* the words of a header alternative, written with one blank between them
RECURSIVE JoinWords(_)
JoinWords(words) ==
    IF Len(words) = 1 THEN words[1] ELSE words[1] \o Chars(" ") \o JoinWords(Tail(words))

\* a header synonym of the anchored expressions alone on the first line,
\* and one content line after it
HeaderTexts ==
    UNION {{JoinLines(<<JoinWords(section_patterns[s].headers[h]), ContentLine>>) :
                h \in DOMAIN section_patterns[s].headers} : s \in SectionNames}

(***************************************************************************)
(* helpers.count_keywords: for each keyword the number of matches that     *)
(* re.findall gives for \b + re.escape(keyword.lower()) + \b in the        *)
(* lower-cased text.                                                       *)
(***************************************************************************)
Range(q) == {q[i] : i \in DOMAIN q}

\* \w: a letter, a digit or the underscore
WordChars == Range(UpperCase) \cup Range(LowerCase) \cup Range(Chars("0123456789_"))

\* the character at offset i is a word character; outside the text none is
IsWordAt(text, i) == i >= 1 /\ i <= Len(text) /\ text[i] \in WordChars

\* \b between the characters i and i + 1 of the text
WordBoundary(text, i) == IsWordAt(text, i) # IsWordAt(text, i + 1)

\* the pattern matches at offset i of the text
KeywordAt(text, i, keyword) ==
    /\ i + Len(keyword) <= Len(text)
    /\ WordBoundary(text, i)
    /\ \A m \in DOMAIN keyword : text[i + m] = keyword[m]
    /\ WordBoundary(text, i + Len(keyword))

\* len(re.findall(pattern, text)): the matches from offset i on, found from
\* left to right without overlap
RECURSIVE FindAllCount(_, _, _)
FindAllCount(text, i, keyword) ==
    IF i > Len(text) THEN 0
    ELSE IF ~KeywordAt(text, i, keyword) THEN FindAllCount(text, i + 1, keyword)
    ELSE 1 + FindAllCount(text, IF keyword = <<>> THEN i + 1 ELSE i + Len(keyword), keyword)

\* the dict counts: one key for each keyword given
CountKeywords(text, keywords) ==
    [k \in Range(keywords) |-> FindAllCount(Lower(text), 0, Lower(k))]

(***************************************************************************)
(* helpers.get_keyword_density, extract_ats_keywords and                   *)
(* generate_job_match_score.  A float that round(x, 2) returns is kept as  *)
(* its number of hundredths.                                               *)
(***************************************************************************)
\* str.split(): the maximal runs of characters that are not white space
RECURSIVE Words(_)
Words(text) ==
    LET t == StripLeft(text)
        ws == {i \in DOMAIN t : t[i] \in Whitespace}
    IN  IF t = <<>> THEN <<>>
        ELSE IF ws = {} THEN <<t>>
        ELSE <<SubSeq(t, 1, Min(ws) - 1)>> \o Words(SubSeq(t, Min(ws), Len(t)))

\* round(n / d, 2) for n >= 0 and d > 0, in hundredths; a tie goes to the even digit
Round2(n, d) ==
    LET q == (100 * n) \div d
        r == (100 * n) % d
    IN  IF 2 * r > d \/ (2 * r = d /\ q % 2 = 1) THEN q + 1 ELSE q

GetKeywordDensity(text, keyword) ==
    LET words == Words(Lower(text))
        keyword_lower == Lower(keyword)
        keyword_count == Cardinality({i \in DOMAIN words : Contains(words[i], keyword_lower)})
    IN  IF Len(words) = 0 THEN 0 ELSE Round2(keyword_count * 100, Len(words))

\* the categories of extract_ats_keywords, in the order the dict is written
CategoryOrder == <<"programming_languages", "frameworks", "databases", "tools", "soft_skills">>

keywords ==
    [ programming_languages |->
        <<Chars("python"), Chars("javascript"), Chars("java"), Chars("csharp"),
          Chars("c++"), Chars("ruby"), Chars("php"), Chars("swift"), Chars("kotlin"),
          Chars("golang"), Chars("rust"), Chars("typescript"), Chars("sql")>>,
     frameworks |->
        <<Chars("react"), Chars("angular"), Chars("vue"), Chars("django"),
          Chars("flask"), Chars("fastapi"), Chars("spring"), Chars("express"),
          Chars("laravel"), Chars("asp.net")>>,
     databases |->
        <<Chars("sql"), Chars("mysql"), Chars("postgresql"), Chars("mongodb"),
          Chars("redis"), Chars("firebase"), Chars("dynamodb"), Chars("elasticsearch"),
          Chars("cassandra")>>,
     tools |->
        <<Chars("git"), Chars("docker"), Chars("kubernetes"), Chars("jenkins"),
          Chars("gitlab"), Chars("github"), Chars("jira"), Chars("aws"),
          Chars("azure"), Chars("gcp"), Chars("linux"), Chars("unix")>>,
     soft_skills |->
        <<Chars("leadership"), Chars("communication"), Chars("teamwork"),
          Chars("problem solving"), Chars("project management"),
          Chars("critical thinking"), Chars("collaboration")>>]

\* the keywords of a list that occur in the text, in the order of the list
RECURSIVE FoundIn(_, _)
FoundIn(text_lower, keyword_list) ==
    IF keyword_list = <<>> THEN <<>>
    ELSE (IF Contains(text_lower, Head(keyword_list)) THEN <<Head(keyword_list)>> ELSE <<>>)
         \o FoundIn(text_lower, Tail(keyword_list))

ExtractAtsKeywords(resume_text) ==
    [category \in Range(CategoryOrder) |-> FoundIn(Lower(resume_text), keywords[category])]

\* the keys of a record in the order a client writes them
FieldOrder ==
    <<"personal_info", "name", "email", "phone", "location", "website", "summary",
      "experience", "position", "company", "start_date", "end_date", "responsibilities",
      "education", "degree", "field", "institution", "gpa", "skills", "projects",
      "description", "technologies", "link", "certifications", "score">>

RECURSIVE JoinWith(_, _)
JoinWith(sep, parts) ==
    IF parts = <<>> THEN <<>>
    ELSE IF Len(parts) = 1 THEN parts[1]
    ELSE parts[1] \o sep \o JoinWith(sep, Tail(parts))

\* the keys of a dict, in FieldOrder
KeysOf(d) == SelectSeq(FieldOrder, LAMBDA k : k \in DOMAIN d.obj)

\* json.dumps(v) with the quote ", and repr(v) with the quote '
RECURSIVE Dumps(_, _)
Dumps(v, quote) ==
    IF IsNum(v) THEN Chars(ToString(v.num))
    ELSE IF IsArr(v)
    THEN Chars("[") \o JoinWith(Chars(", "), [i \in DOMAIN v.arr |-> Dumps(v.arr[i], quote)])
         \o Chars("]")
    ELSE IF IsObj(v)
    THEN Chars("{")
         \o JoinWith(Chars(", "),
                     [i \in DOMAIN KeysOf(v) |->
                        quote \o Chars(KeysOf(v)[i]) \o quote \o Chars(": ")
                        \o Dumps(v.obj[KeysOf(v)[i]], quote)])
         \o Chars("}")
    ELSE quote \o Chars(v.str) \o quote

\* str(v)
PyStr(v) == IF DOMAIN v = {"str"} THEN Chars(v.str) ELSE Dumps(v, Chars("'"))

\* " ".join(v): of the items of a list, the keys of a dict or the characters
\* of a str; an item that is no str and a number raise TypeError
JoinSkills(v) ==
    IF IsArr(v)
    THEN IF \E i \in DOMAIN v.arr : DOMAIN v.arr[i] # {"str"} THEN Raise("TypeError")
         ELSE Return(JoinWith(Chars(" "), [i \in DOMAIN v.arr |-> Chars(v.arr[i].str)]))
    ELSE IF IsObj(v) THEN Return(JoinWith(Chars(" "), [i \in DOMAIN KeysOf(v) |-> Chars(KeysOf(v)[i])]))
    ELSE IF IsNum(v) THEN Raise("TypeError")
    ELSE Return(JoinWith(Chars(" "), [i \in 1..Len(v.str) |-> <<Chars(v.str)[i]>>]))

\* generate_job_match_score dividing by the number of job words without testing it
GenerateJobMatchScore_NoTokenTest(resume_data, job_description) ==
    IF job_description = <<>> THEN Return(0)
    ELSE LET job_words == Range(Words(Lower(job_description)))
         IN  IF Cardinality(job_words) = 0 THEN Raise("ZeroDivisionError")
             ELSE Return(Round2(Cardinality(job_words) * 100, Cardinality(job_words)))

\* generate_job_match_score; the result is in hundredths
GenerateJobMatchScore(resume_data, job_description) ==
    IF job_description = <<>> THEN Return(0)
    ELSE LET personal_info == DictGet(resume_data, "personal_info", Obj(EmptyDict))
             skills == JoinSkills(DictGet(resume_data, "skills", Arr(<<>>)))
         IN  IF ~IsObj(personal_info) THEN Raise("AttributeError")
             ELSE IF Raised(skills) THEN skills
             ELSE LET resume_text ==
                          PyStr(DictGet(personal_info, "name", Str(""))) \o Chars(" ")
                          \o skills.val \o Chars(" ")
                          \o Dumps(DictGet(resume_data, "experience", Arr(<<>>)), Chars("\""))
                      job_words == Range(Words(Lower(job_description)))
                      resume_words == Range(Words(Lower(resume_text)))
                  IN  IF Cardinality(job_words) = 0 THEN Return(0)
                      ELSE Return(Round2(Cardinality(job_words \cap resume_words) * 100,
                                         Cardinality(job_words)))

\* the texts and the keywords of the calls
MaxKeywords == 2

CountTexts ==
    {Chars("Python is great, python rocks"), Chars("pythonic python3 Python"),
     Chars("I know C++ well"), Chars("c++x"), <<>>}

Keywords == {Chars("python"), Chars("Python"), Chars("C++"), Chars("rocks"), Chars("java"), <<>>}

(***************************************************************************)
(* PDFParser.extract_email and extract_phone: the first match of the       *)
(* regular expression, from the left; a greedy quantifier takes the        *)
(* longest run first and gives characters back while the rest fails.       *)
(***************************************************************************)
DigitChars == Range(Chars("0123456789"))
Letters == Range(UpperCase) \cup Range(LowerCase)

\* [A-Za-z0-9._%+-], [A-Za-z0-9.-] and [A-Z|a-z]
EmailLocalChars == Letters \cup DigitChars \cup Range(Chars("._%+-"))
EmailDomainChars == Letters \cup DigitChars \cup Range(Chars(".-"))
EmailTldChars == Letters \cup {"|"}

\* the ends <<d, e>> of the domain and of the match for a match that starts
\* at i: \b, the local part up to the @ at a, the domain, a dot, two
\* characters or more, \b
EmailEnds(text, i) ==
    LET stops == {k \in i..Len(text) : text[k] \notin EmailLocalChars}
        a == IF stops = {} THEN Len(text) + 1 ELSE Min(stops)
    IN  IF ~(IsWordAt(text, i - 1) # IsWordAt(text, i)) \/ a = i \/ a > Len(text) THEN {}
        ELSE IF text[a] # "@" THEN {}
        ELSE {de \in (a + 1..Len(text)) \X (a + 1..Len(text)) :
                 /\ \A k \in a + 1..de[1] : text[k] \in EmailDomainChars
                 /\ de[1] + 1 <= Len(text) /\ text[de[1] + 1] = "."
                 /\ de[2] >= de[1] + 3
                 /\ \A k \in de[1] + 2..de[2] : text[k] \in EmailTldChars
                 /\ IsWordAt(text, de[2]) # IsWordAt(text, de[2] + 1)}

ExtractEmail(text) ==
    LET starts == {i \in DOMAIN text : EmailEnds(text, i) # {}}
    IN  IF starts = {} THEN <<>>
        ELSE LET i == Min(starts)
                 d == Max({de[1] : de \in EmailEnds(text, i)})
                 e == Max({de[2] : de \in {x \in EmailEnds(text, i) : x[1] = d}})
             IN  SubSeq(text, i, e)

\* [\d\s\-\(\)]
PhoneChars == DigitChars \cup Whitespace \cup Range(Chars("-()"))

\* the length of the run of phone characters that starts at i
RECURSIVE PhoneRun(_, _)
PhoneRun(text, i) ==
    IF i > Len(text) \/ text[i] \notin PhoneChars THEN 0 ELSE 1 + PhoneRun(text, i + 1)

\* the length of the match of \+?[\d\s\-\(\)]{10,} that starts at i; 0 for none
PhoneMatch(text, i) ==
    IF text[i] = "+" /\ PhoneRun(text, i + 1) >= 10 THEN 1 + PhoneRun(text, i + 1)
    ELSE IF PhoneRun(text, i) >= 10 THEN PhoneRun(text, i)
    ELSE 0

\* extract_phone asking for ten digits in a row
ExtractPhone_DigitsInARow(text) ==
    LET run(i) == {n \in 0..Len(text) - i + 1 : \A k \in i..i + n - 1 : text[k] \in DigitChars}
        starts == {i \in DOMAIN text : Max(run(i)) >= 10}
    IN  IF starts = {} THEN <<>>
        ELSE SubSeq(text, Min(starts), Min(starts) + Max(run(Min(starts))) - 1)

ExtractPhone(text) ==
    LET starts == {i \in DOMAIN text : PhoneMatch(text, i) > 0}
    IN  IF starts = {} THEN <<>>
        ELSE StripWs(SubSeq(text, Min(starts), Min(starts) + PhoneMatch(text, Min(starts)) - 1))

\* len(text.split('\n\n')): one more than the breaks found from left to right
RECURSIVE SplitCount(_)
SplitCount(text) ==
    LET at == {i \in 1..Len(text) - 1 : text[i] = "\n" /\ text[i + 1] = "\n"}
    IN  IF at = {} THEN 1 ELSE 1 + SplitCount(SubSeq(text, Min(at) + 2, Len(text)))

\* the dict parse_resume builds from the text of the PDF
ParsedData(text) ==
    [raw_text |-> text,
     email |-> ExtractEmail(text),
     phone |-> ExtractPhone(text),
     sections |-> ExtractSections(text),
     word_count |-> Len(Words(text)),
     page_count |-> SplitCount(text)]

\* the resume of seven lines
SevenLines ==
    JoinLines(<<Chars("John Doe"), Chars("john@x.com"), Chars("555-123-4567"),
                Chars("EDUCATION"), Chars("BS Computer Science"), Chars("SKILLS"),
                Chars("Python, Go")>>)

ContactLines ==
    {Chars("John Doe"), Chars("john@x.com"), Chars("555-123-4567"), Chars("EDUCATION"),
     Chars("a_b@c.d.ef|g x@y.org"), Chars("+1 (555) 123-4567 ")}

ParseTexts == {JoinLines(ls) : ls \in SeqsUpTo(ContactLines, MaxLines)} \cup {SevenLines}

(***************************************************************************)
(* Files.  A path is a sequence of lexemes; the output directory maps each *)
(* path to what the file holds.                                            *)
(***************************************************************************)
OUTPUT_DIR == "output"
NoFile == [fmt |-> "none"]
DocxOf(data) == [fmt |-> "docx", data |-> data]
PdfOf(file) == [fmt |-> "pdf", data |-> file.data]

\* f"resume_{template}.{format}"
OutputFilename(template, format) == <<"resume_" \o template, "." \o format>>
\* os.path.join(OUTPUT_DIR, filename)
PathJoin(dir, filename) == <<dir>> \o filename
\* str.replace(old, new) on a name whose lexemes are its stem and its extension
Replace(name, old, new) == [i \in DOMAIN name |-> IF name[i] = old THEN new ELSE name[i]]

Paths == {PathJoin(OUTPUT_DIR, OutputFilename(t, f)) : t \in Templates, f \in {"docx", "pdf"}}

\* the paths generate_docx is given
DocxPaths == {q \in Paths : q[Len(q)] = ".docx"}

DOCX_MIME == "application/vnd.openxmlformats-officedocument.wordprocessingml.document"
PDF_MIME == "application/pdf"

(***************************************************************************)
(* DocumentGenerator.generate_docx: the statements that can raise, in the  *)
(* order they run; "none" stands for a statement that raised nothing.      *)
(***************************************************************************)
IsStr(v) == DOMAIN v = {"str"}

\* bool(v)
PyTruthy(v) ==
    IF IsNum(v) THEN v.num # 0
    ELSE IF IsArr(v) THEN v.arr # <<>>
    ELSE IF IsObj(v) THEN DOMAIN v.obj # {}
    ELSE v.str # ""

\* the first exception of statements run one after the other
FirstExc(excs) ==
    LET bad == {i \in DOMAIN excs : excs[i] # "none"}
    IN  IF bad = {} THEN "none" ELSE excs[Min(bad)]

\* add_run(v) and add_paragraph(v) of python-docx take a str
TextArg(v) == IF IsStr(v) THEN "none" ELSE "TypeError"

\* v.get(...): only a dict has the method
GetOf(v) == IF IsObj(v) THEN "none" ELSE "AttributeError"

\* for item in v: the items of a list, the keys of a dict, the characters
\* of a str; a number is not iterable
Items(v) ==
    IF IsArr(v) THEN v.arr
    ELSE IF IsObj(v) THEN [i \in DOMAIN KeysOf(v) |-> Str(KeysOf(v)[i])]
    ELSE IF IsStr(v) THEN [i \in 1..Len(v.str) |-> Str(SubSeq(v.str, i, i))]
    ELSE <<>>
IterExc(v) == IF IsNum(v) THEN "TypeError" ELSE "none"

\* if resume_data.get(key) and len(resume_data[key]) > 0: for entry in ...
SectionEntries(resume_data, key) ==
    LET v == DictGet(resume_data, key, Arr(<<>>))
    IN  IF PyTruthy(v) THEN Items(v) ELSE <<>>
SectionExc(resume_data, key) ==
    LET v == DictGet(resume_data, key, Arr(<<>>))
    IN  IF PyTruthy(v) /\ IsNum(v) THEN "TypeError" ELSE "none"

ExperienceExc(exp) ==
    IF ~IsObj(exp) THEN "AttributeError"
    ELSE LET responsibilities == DictGet(exp, "responsibilities", Arr(<<>>))
         IN  FirstExc(<<IterExc(responsibilities)>>
                      \o [i \in DOMAIN Items(responsibilities) |-> TextArg(Items(responsibilities)[i])])

EducationExc(edu) ==
    IF ~IsObj(edu) THEN "AttributeError"
    ELSE TextArg(DictGet(edu, "institution", Str("")))

ProjectExc(project) ==
    IF ~IsObj(project) THEN "AttributeError"
    ELSE LET technologies == DictGet(project, "technologies", Arr(<<>>))
             link == DictGet(project, "link", Str(""))
         IN  FirstExc(<<TextArg(DictGet(project, "name", Str(""))),
                        TextArg(DictGet(project, "description", Str(""))),
                        IF PyTruthy(technologies) /\ Raised(JoinSkills(technologies))
                        THEN JoinSkills(technologies).exc ELSE "none",
                        IF PyTruthy(link) THEN TextArg(link) ELSE "none">>)

\* generate_docx taking every field with a subscript: an absent one raises
GenerateDocx_Subscripts(resume_data) ==
    IF \E k \in {"personal_info", "summary", "experience", "education", "skills",
                 "projects", "certifications"} : k \notin DOMAIN resume_data.obj
    THEN Raise("KeyError")
    ELSE Return(resume_data)

\* generate_docx: the except clause logs and raises again; the value
\* returned stands for the document saved
GenerateDocx(resume_data) ==
    LET personal_info == DictGet(resume_data, "personal_info", Obj(EmptyDict))
        summary == DictGet(resume_data, "summary", Str(""))
        skills == DictGet(resume_data, "skills", Arr(<<>>))
        experience == SectionEntries(resume_data, "experience")
        education == SectionEntries(resume_data, "education")
        projects == SectionEntries(resume_data, "projects")
        certifications == SectionEntries(resume_data, "certifications")
        exc == FirstExc(
                 <<GetOf(personal_info),
                   IF IsObj(personal_info)
                   THEN TextArg(DictGet(personal_info, "name", Str("Your Name"))) ELSE "none",
                   IF PyTruthy(summary) THEN TextArg(summary) ELSE "none",
                   SectionExc(resume_data, "experience")>>
                 \o [i \in DOMAIN experience |-> ExperienceExc(experience[i])]
                 \o <<SectionExc(resume_data, "education")>>
                 \o [i \in DOMAIN education |-> EducationExc(education[i])]
                 \o <<IF PyTruthy(skills) /\ Raised(JoinSkills(skills))
                      THEN JoinSkills(skills).exc ELSE "none",
                      SectionExc(resume_data, "projects")>>
                 \o [i \in DOMAIN projects |-> ProjectExc(projects[i])]
                 \o <<SectionExc(resume_data, "certifications")>>
                 \o [i \in DOMAIN certifications |-> TextArg(certifications[i])])
    IN  IF exc = "none" THEN Return(resume_data) ELSE Raise(exc)

\* generate_docx returns: no field has a type that makes a statement raise
DocxRenders(data) == ~Raised(GenerateDocx(data))

\* how subprocess.run of the converter ends
ConvOutcomes == {"ok", "FileNotFoundError", "TimeoutExpired", "CalledProcessError"}

\* PDFParser.parse_resume: the extractor reads the file or raises
ExtractOutcomes == {"ok", "raised"}

\* parse_resume giving a result also when the extractor failed
ParseResume_AbsorbsFailure(ext) == Return(Str("parsed"))

\* PDFParser.parse_resume: what the extractor raises is raised again
ParseResume(ext) ==
    IF ext = "raised" THEN Raise("Exception") ELSE Return(Str("parsed"))

\* temp files that may be left in the uploads directory
MaxTmpFiles == 1

(***************************************************************************)
(* State.                                                                  *)
(***************************************************************************)
VARIABLES
    pc,         \* where each request is
    route,      \* the route (or the direct service call) of each request
    args,       \* its inputs
    loc,        \* the handler's local values between two AI calls
    aiLog,      \* the AI calls of the request, in order
    convLog,    \* the converter runs of the request, in order
    resp,       \* the response the handler returned
    served,     \* the file content the caller received
    outputDir,  \* the files of the output directory
    uploads     \* the number of temp files in the uploads directory

vars == <<pc, route, args, loc, aiLog, convLog, resp, served, outputDir, uploads>>

None == [none |-> TRUE]
NoResp == [code |-> 0]

Init ==
    /\ pc = [r \in Reqs |-> "idle"]
    /\ route = [r \in Reqs |-> "none"]
    /\ args = [r \in Reqs |-> None]
    /\ loc = [r \in Reqs |-> None]
    /\ aiLog = [r \in Reqs |-> <<>>]
    /\ convLog = [r \in Reqs |-> <<>>]
    /\ resp = [r \in Reqs |-> NoResp]
    /\ served = [r \in Reqs |-> NoFile]
    /\ outputDir = [p \in Paths |-> NoFile]
    /\ uploads = 0

\* a request arrives
Arrive(r, rt, a) ==
    /\ pc[r] = "idle"
    /\ pc' = [pc EXCEPT ![r] = "received"]
    /\ route' = [route EXCEPT ![r] = rt]
    /\ args' = [args EXCEPT ![r] = a]
    /\ UNCHANGED <<loc, aiLog, convLog, resp, served, outputDir, uploads>>

\* the handler returns or raises: the request has its response
Respond(r, response) ==
    /\ pc' = [pc EXCEPT ![r] = "done"]
    /\ resp' = [resp EXCEPT ![r] = response]

HttpError(code, detail) == [code |-> code, detail |-> detail]
Success(body) == [code |-> 200, body |-> body]

\* one AI call of an operation, as the log keeps it
LogEntry(op, site, call, ret) ==
    [op |-> op, kind |-> Kind(call, site),
     payload |-> IF Kind(call, site) = "parsed" THEN Payload(call, site) ELSE None,
     ret |-> ret]

(***************************************************************************)
(* POST /api/calculate-ats-score                                           *)
(***************************************************************************)
ReceiveAts(r) ==
    \E f \in FormTexts \cup {FormNone} : Arrive(r, "ats", [resume_text |-> f])

AtsReject(r) ==
    /\ pc[r] = "received" /\ route[r] = "ats"
    /\ BlankForm(args[r].resume_text)
    /\ Respond(r, HttpError(400, "Resume text cannot be empty"))
    /\ UNCHANGED <<route, args, loc, aiLog, convLog, served, outputDir, uploads>>

AtsScore(r) ==
    /\ pc[r] = "received" /\ route[r] = "ats"
    /\ ~BlankForm(args[r].resume_text)
    /\ \E call \in AICalls :
         LET ret == CalculateAtsScore(call)
         IN  /\ aiLog' = [aiLog EXCEPT ![r] = Append(@, LogEntry("calculate_ats_score", "braces", call, ret))]
             /\ Respond(r, IF Raised(ret)
                           THEN HttpError(IF ret.exc = "ValueError" THEN 400 ELSE 500, ret.exc)
                           ELSE Success(ret.val))
    /\ UNCHANGED <<route, args, loc, convLog, served, outputDir, uploads>>

AtsRoute(r) == AtsReject(r) \/ AtsScore(r)

(***************************************************************************)
(* POST /api/enhance-resume                                                *)
(***************************************************************************)
ReceiveEnhance(r) ==
    \E d \in {EmptyResume, ResumeA, ResumeB} : Arrive(r, "enhance", [resume_data |-> d])

EnhanceReject(r) ==
    /\ pc[r] = "received" /\ route[r] = "enhance"
    /\ ~Truthy(args[r].resume_data)
    /\ Respond(r, HttpError(400, "Resume data is required"))
    /\ UNCHANGED <<route, args, loc, aiLog, convLog, served, outputDir, uploads>>

\* except ValueError: 400 / except Exception: 500
EnhanceExcept(exc) == HttpError(IF exc = "ValueError" THEN 400 ELSE 500, exc)

\* the first scoring step calling again when its call did not give a parsed span
EnhanceScoreOriginal_Retry(r) ==
    /\ pc[r] = "received" /\ route[r] = "enhance"
    /\ Truthy(args[r].resume_data)
    /\ \E call1 \in AICalls, call2 \in AICalls :
         LET ret1 == CalculateAtsScore(call1)
             ret2 == CalculateAtsScore(call2)
             e1 == LogEntry("calculate_ats_score", "braces", call1, ret1)
             e2 == LogEntry("calculate_ats_score", "braces", call2, ret2)
         IN  /\ aiLog' = [aiLog EXCEPT ![r] = IF e1.kind = "parsed" THEN Append(@, e1)
                                               ELSE Append(Append(@, e1), e2)]
             /\ pc' = [pc EXCEPT ![r] = "scored"]
             /\ loc' = [loc EXCEPT ![r] = [original_score_data |->
                                             IF e1.kind = "parsed" THEN ret1.val ELSE ret2.val]]
             /\ UNCHANGED resp
    /\ UNCHANGED <<route, args, convLog, served, outputDir, uploads>>

\* original_score_data = ats_scorer.calculate_ats_score(json.dumps(resume_data), ...)
EnhanceScoreOriginal(r) ==
    /\ pc[r] = "received" /\ route[r] = "enhance"
    /\ Truthy(args[r].resume_data)
    /\ \E call \in AICalls :
         LET ret == CalculateAtsScore(call)
         IN  /\ aiLog' = [aiLog EXCEPT ![r] = Append(@, LogEntry("calculate_ats_score", "braces", call, ret))]
             /\ IF Raised(ret)
                THEN Respond(r, EnhanceExcept(ret.exc)) /\ UNCHANGED loc
                ELSE /\ pc' = [pc EXCEPT ![r] = "scored"]
                     /\ loc' = [loc EXCEPT ![r] = [original_score_data |-> ret.val]]
                     /\ UNCHANGED resp
    /\ UNCHANGED <<route, args, convLog, served, outputDir, uploads>>

\* enhanced_data = ai_enhancer.enhance_resume_content(resume_data, ...)
EnhanceContent(r) ==
    /\ pc[r] = "scored" /\ route[r] = "enhance"
    /\ \E call \in AICalls :
         LET ret == EnhanceResumeContent(args[r].resume_data, call)
         IN  /\ aiLog' = [aiLog EXCEPT ![r] = Append(@, LogEntry("enhance_resume_content", "braces", call, ret))]
             /\ IF Raised(ret)
                THEN Respond(r, EnhanceExcept(ret.exc)) /\ UNCHANGED loc
                ELSE /\ pc' = [pc EXCEPT ![r] = "enhanced"]
                     /\ loc' = [loc EXCEPT ![r] = [original_score_data |-> @.original_score_data,
                                                   enhanced_data |-> ret.val]]
                     /\ UNCHANGED resp
    /\ UNCHANGED <<route, args, convLog, served, outputDir, uploads>>

\* the statements after the third AI call: compare the two scores and build
\* the response body; the first exception ends them
EnhanceBody(original_score_data, enhanced_data, enhanced_score_data) ==
    LET o == Subscript(original_score_data, "score")
        e == Subscript(enhanced_score_data, "score")
    IN  IF Raised(o) THEN o
        ELSE IF Raised(e) THEN e
        ELSE LET improvements == CompareScores(o.val, e.val)
             IN  IF Raised(improvements) THEN improvements
                 ELSE Return(Obj([enhanced_data |-> enhanced_data,
                                  original_score |-> o.val,
                                  enhanced_score |-> e.val,
                                  improvements |-> improvements.val,
                                  suggestions |-> DictGet(enhanced_score_data, "suggestions", Arr(<<>>))]))

\* enhanced_score_data = ats_scorer.calculate_ats_score(json.dumps(enhanced_data), ...)
\* and the rest of the handler
EnhanceScoreEnhanced(r) ==
    /\ pc[r] = "enhanced" /\ route[r] = "enhance"
    /\ \E call \in AICalls :
         LET ret == CalculateAtsScore(call)
             body == IF Raised(ret) THEN ret
                     ELSE EnhanceBody(loc[r].original_score_data, loc[r].enhanced_data, ret.val)
         IN  /\ aiLog' = [aiLog EXCEPT ![r] = Append(@, LogEntry("calculate_ats_score", "braces", call, ret))]
             /\ Respond(r, IF Raised(body) THEN EnhanceExcept(body.exc) ELSE Success(body.val))
    /\ UNCHANGED <<route, args, loc, convLog, served, outputDir, uploads>>

EnhanceRoute(r) ==
    EnhanceReject(r) \/ EnhanceScoreOriginal(r) \/ EnhanceContent(r) \/ EnhanceScoreEnhanced(r)

(***************************************************************************)
(* POST /api/enhance-bullet-points and POST /api/suggest-improvements      *)
(***************************************************************************)
ReceiveBullets(r) ==
    \E b \in BulletLists : Arrive(r, "bullets", [bullet_points |-> b])

BulletsReject(r) ==
    /\ pc[r] = "received" /\ route[r] = "bullets"
    /\ ~Truthy(args[r].bullet_points)
    /\ Respond(r, HttpError(400, "bullet_points must be a non-empty list"))
    /\ UNCHANGED <<route, args, loc, aiLog, convLog, served, outputDir, uploads>>

BulletsEnhance(r) ==
    /\ pc[r] = "received" /\ route[r] = "bullets"
    /\ Truthy(args[r].bullet_points)
    /\ \E call \in AICalls :
         LET ret == EnhanceBulletPoints(args[r].bullet_points, call)
         IN  /\ aiLog' = [aiLog EXCEPT ![r] = Append(@, LogEntry("enhance_bullet_points", "brackets", call, ret))]
             /\ Respond(r, IF Raised(ret) THEN HttpError(500, ret.exc) ELSE Success(ret.val))
    /\ UNCHANGED <<route, args, loc, convLog, served, outputDir, uploads>>

BulletsRoute(r) == BulletsReject(r) \/ BulletsEnhance(r)

ReceiveSuggest(r) ==
    \E f \in FormTexts : Arrive(r, "suggest", [resume_text |-> f])

SuggestReject(r) ==
    /\ pc[r] = "received" /\ route[r] = "suggest"
    /\ BlankForm(args[r].resume_text)
    /\ Respond(r, HttpError(400, "Resume text cannot be empty"))
    /\ UNCHANGED <<route, args, loc, aiLog, convLog, served, outputDir, uploads>>

SuggestRun(r) ==
    /\ pc[r] = "received" /\ route[r] = "suggest"
    /\ ~BlankForm(args[r].resume_text)
    /\ \E call \in AICalls :
         LET ret == SuggestImprovements(call)
         IN  /\ aiLog' = [aiLog EXCEPT ![r] = Append(@, LogEntry("suggest_improvements", "brackets", call, ret))]
             /\ Respond(r, IF Raised(ret) THEN HttpError(500, ret.exc) ELSE Success(ret.val))
    /\ UNCHANGED <<route, args, loc, convLog, served, outputDir, uploads>>

SuggestRoute(r) == SuggestReject(r) \/ SuggestRun(r)

(***************************************************************************)
(* ATSScorer.analyze_keywords, which no route calls: a direct call whose   *)
(* outcome is kept in the log only.                                        *)
(***************************************************************************)
ReceiveKeywords(r) ==
    \E f \in FormTexts : Arrive(r, "keywords", [resume_text |-> f])

KeywordsCall(r) ==
    /\ pc[r] = "received" /\ route[r] = "keywords"
    /\ \E call \in AICalls :
         LET ret == AnalyzeKeywords(call)
         IN  aiLog' = [aiLog EXCEPT ![r] = Append(@, LogEntry("analyze_keywords", "braces", call, ret))]
    /\ pc' = [pc EXCEPT ![r] = "done"]
    /\ UNCHANGED <<route, args, loc, convLog, resp, served, outputDir, uploads>>

(***************************************************************************)
(* POST /api/generate-resume.  The handler has no await: it runs as one    *)
(* step.  The FileResponse it returns names a path; the file is read when  *)
(* the response is sent, after the handler has returned.                   *)
(***************************************************************************)
ReceiveGenerate(r) ==
    \E d \in {EmptyResume, ResumeA, ResumeB, BadResume}, t \in Templates, f \in Formats :
        Arrive(r, "generate", [resume_data |-> d, template |-> t, format |-> f])

\* generate-resume looking at resume_data only after it has rendered it
GenerateReject_AfterRender(r) ==
    /\ pc[r] = "received" /\ route[r] = "generate"
    /\ \/ /\ args[r].format \notin {"docx", "pdf"}
          /\ Respond(r, HttpError(400, "Format must be 'docx' or 'pdf'"))
          /\ UNCHANGED outputDir
       \/ /\ args[r].format \in {"docx", "pdf"}
          /\ ~Truthy(args[r].resume_data)
          /\ outputDir' = [outputDir EXCEPT
                             ![PathJoin(OUTPUT_DIR, OutputFilename(args[r].template, "docx"))] =
                                 DocxOf(args[r].resume_data)]
          /\ Respond(r, HttpError(400, "Resume data is required"))
    /\ UNCHANGED <<route, args, loc, aiLog, convLog, served, uploads>>

GenerateReject(r) ==
    /\ pc[r] = "received" /\ route[r] = "generate"
    /\ \/ /\ args[r].format \notin {"docx", "pdf"}
          /\ Respond(r, HttpError(400, "Format must be 'docx' or 'pdf'"))
       \/ /\ args[r].format \in {"docx", "pdf"}
          /\ ~Truthy(args[r].resume_data)
          /\ Respond(r, HttpError(400, "Resume data is required"))
    /\ UNCHANGED <<route, args, loc, aiLog, convLog, served, outputDir, uploads>>

\* DocumentGenerator.generate_pdf_from_docx: the converter writes, into the
\* directory of pdf_path, the input's name with the extension pdf
ConvertedPath(docx_path) == Replace(docx_path, ".docx", ".pdf")

GenerateRender(r) ==
    /\ pc[r] = "received" /\ route[r] = "generate"
    /\ args[r].format \in {"docx", "pdf"}
    /\ Truthy(args[r].resume_data)
    /\ LET format == args[r].format
           output_filename == OutputFilename(args[r].template, format)
           output_path == PathJoin(OUTPUT_DIR, output_filename)
           docx_path == IF format = "pdf" THEN Replace(output_path, ".pdf", ".docx") ELSE output_path
           media_type == IF format = "docx" THEN DOCX_MIME ELSE PDF_MIME
           rendered == [outputDir EXCEPT ![docx_path] = DocxOf(args[r].resume_data)]
       IN  IF ~DocxRenders(args[r].resume_data)
           THEN /\ Respond(r, HttpError(500, "Error generating resume"))
                /\ UNCHANGED <<convLog, outputDir>>
           ELSE IF format = "docx"
           THEN /\ outputDir' = rendered
                /\ pc' = [pc EXCEPT ![r] = "sending"]
                /\ resp' = [resp EXCEPT ![r] = [code |-> 200, path |-> output_path,
                                                media_type |-> media_type,
                                                filename |-> output_filename]]
                /\ UNCHANGED convLog
           ELSE \E conv \in ConvOutcomes :
                /\ convLog' = [convLog EXCEPT ![r] = Append(@, conv)]
                /\ outputDir' = IF conv = "ok"
                                THEN [rendered EXCEPT ![ConvertedPath(docx_path)] = PdfOf(rendered[docx_path])]
                                ELSE rendered
                /\ pc' = [pc EXCEPT ![r] = "sending"]
                /\ resp' = [resp EXCEPT ![r] =
                              IF conv = "ok"
                              THEN [code |-> 200, path |-> output_path,
                                    media_type |-> media_type, filename |-> output_filename]
                              ELSE [code |-> 200, path |-> docx_path,
                                    media_type |-> media_type,
                                    filename |-> Replace(output_filename, ".pdf", ".docx")]]
    /\ UNCHANGED <<route, args, loc, aiLog, served, uploads>>

\* FileResponse sends the file that is at the path now
GenerateSend(r) ==
    /\ pc[r] = "sending" /\ route[r] = "generate"
    /\ served' = [served EXCEPT ![r] = outputDir[resp[r].path]]
    /\ pc' = [pc EXCEPT ![r] = "done"]
    /\ UNCHANGED <<route, args, loc, aiLog, convLog, resp, outputDir, uploads>>

GenerateRoute(r) == GenerateReject(r) \/ GenerateRender(r)

(***************************************************************************)
(* POST /api/upload-resume                                                 *)
(***************************************************************************)
ReceiveUpload(r) ==
    \E n \in UploadNames : Arrive(r, "upload", [filename |-> n])

UploadReject(r) ==
    /\ pc[r] = "received" /\ route[r] = "upload"
    /\ ~EndsWith(args[r].filename, ".pdf")
    /\ Respond(r, HttpError(400, "Only PDF files are supported"))
    /\ UNCHANGED <<route, args, loc, aiLog, convLog, served, outputDir, uploads>>

\* the temp file is written, parse_resume runs, and os.unlink follows only
\* when it returned
UploadParse(r) ==
    /\ pc[r] = "received" /\ route[r] = "upload"
    /\ EndsWith(args[r].filename, ".pdf")
    /\ \E ext \in ExtractOutcomes :
         LET parsed_data == ParseResume(ext)
         IN  /\ Raised(parsed_data) => uploads < MaxTmpFiles
             /\ loc' = [loc EXCEPT ![r] = [extract |-> ext]]
             /\ IF Raised(parsed_data)
                THEN Respond(r, HttpError(500, "Error parsing resume")) /\ uploads' = uploads + 1
                ELSE Respond(r, Success(parsed_data.val)) /\ UNCHANGED uploads
    /\ UNCHANGED <<route, args, aiLog, convLog, served, outputDir>>

UploadRoute(r) == UploadReject(r) \/ UploadParse(r)

(***************************************************************************)
(* Direct calls of the two segmenters.                                     *)
(***************************************************************************)
ReceiveSections(r) ==
    \E t \in ResumeTexts \cup HeaderTexts \cup SampleTexts : Arrive(r, "extract_sections", [text |-> t])

SectionsCall(r) ==
    /\ pc[r] = "received" /\ route[r] = "extract_sections"
    /\ loc' = [loc EXCEPT ![r] = [sections |-> ExtractSections(args[r].text)]]
    /\ pc' = [pc EXCEPT ![r] = "done"]
    /\ UNCHANGED <<route, args, aiLog, convLog, resp, served, outputDir, uploads>>

ReceiveTextSections(r) ==
    \E t \in ResumeTexts \cup HeaderTexts \cup SampleTexts : Arrive(r, "extract_text_sections", [text |-> t])

TextSectionsCall(r) ==
    /\ pc[r] = "received" /\ route[r] = "extract_text_sections"
    /\ loc' = [loc EXCEPT ![r] = [sections |-> ExtractTextSections(args[r].text)]]
    /\ pc' = [pc EXCEPT ![r] = "done"]
    /\ UNCHANGED <<route, args, aiLog, convLog, resp, served, outputDir, uploads>>

(***************************************************************************)
(* ATSScorer.compare_scores called directly on two scores.                 *)
(***************************************************************************)
MaxGain == 36
MaxDrop == 2

\* original scores: one below zero, zero, and one above zero
OriginalScores == {0 - 1, 0, 60}

ReceiveCompare(r) ==
    \E o \in OriginalScores, d \in (0 - MaxDrop)..MaxGain :
        Arrive(r, "compare_scores", [original_score |-> Num(o), enhanced_score |-> Num(o + d)])

CompareCall(r) ==
    /\ pc[r] = "received" /\ route[r] = "compare_scores"
    /\ loc' = [loc EXCEPT ![r] =
                 [improvements |-> CompareScores(args[r].original_score, args[r].enhanced_score)]]
    /\ pc' = [pc EXCEPT ![r] = "done"]
    /\ UNCHANGED <<route, args, aiLog, convLog, resp, served, outputDir, uploads>>

(***************************************************************************)
(* ATSScorer.calculate_ats_score and AIEnhancer.enhance_bullet_points      *)
(* called directly.  The outcome of generate_content is kept in the local  *)
(* response: the exception, or the text of the completion.                 *)
(***************************************************************************)
MaxSpan == 5

\* the lexemes of the completions: one member lexeme is enough here
CallTokens == Tokens \ {"t"}

Completions ==
    {[exc |-> "ServiceError"]} \cup
    {[exc |-> "none", text |-> t] : t \in SeqsUpTo(CallTokens, MaxSpan)}

\* what the operation sees of the completion
CallOf(response) ==
    IF response.exc # "none" THEN CallRaised ELSE CallText(response.text)

ReceiveScoreCall(r) ==
    Arrive(r, "calculate_ats_score", [resume_text |-> FormText(<<"a">>)])

ScoreCall(r) ==
    /\ pc[r] = "received" /\ route[r] = "calculate_ats_score"
    /\ \E response \in Completions :
         loc' = [loc EXCEPT ![r] = [response |-> response,
                                    result |-> CalculateAtsScore(CallOf(response))]]
    /\ pc' = [pc EXCEPT ![r] = "done"]
    /\ UNCHANGED <<route, args, aiLog, convLog, resp, served, outputDir, uploads>>

ReceiveBulletsCall(r) ==
    \E b \in BulletLists : Arrive(r, "enhance_bullet_points", [bullet_points |-> b])

BulletsCall(r) ==
    /\ pc[r] = "received" /\ route[r] = "enhance_bullet_points"
    /\ \E response \in Completions :
         loc' = [loc EXCEPT ![r] = [response |-> response,
                                    result |-> EnhanceBulletPoints(args[r].bullet_points,
                                                                   CallOf(response))]]
    /\ pc' = [pc EXCEPT ![r] = "done"]
    /\ UNCHANGED <<route, args, aiLog, convLog, resp, served, outputDir, uploads>>

(***************************************************************************)
(* Resume records: a record with every recognised field, and the records   *)
(* that lack some of its fields and sub-fields.                            *)
(***************************************************************************)
FullRecord ==
    Obj([personal_info |-> Obj([name |-> Str("Ann Lee"), email |-> Str("ann@x.com")]),
         summary |-> Str("engineer"),
         experience |->
             Arr(<<Obj([position |-> Str("Dev"), company |-> Str("Acme"),
                        responsibilities |-> Arr(<<Str("built api")>>)])>>),
         education |->
             Arr(<<Obj([degree |-> Str("BS"), institution |-> Str("MIT"), gpa |-> Str("3.9")])>>),
         skills |-> Arr(<<Str("Python"), Str("Go")>>),
         projects |->
             Arr(<<Obj([name |-> Str("Site"), description |-> Str("a site"),
                        technologies |-> Arr(<<Str("Go")>>)])>>),
         certifications |-> Arr(<<Str("AWS")>>)])

TopFields == DOMAIN FullRecord.obj
SubFields ==
    {"name", "email", "position", "company", "responsibilities", "degree", "institution",
     "gpa", "description", "technologies"}

\* the value without the keys of drop, at every depth
RECURSIVE Prune(_, _)
Prune(v, drop) ==
    IF IsObj(v) THEN Obj([k \in DOMAIN v.obj \ drop |-> Prune(v.obj[k], drop)])
    ELSE IF IsArr(v) THEN Arr([i \in DOMAIN v.arr |-> Prune(v.arr[i], drop)])
    ELSE v

\* any top-level fields absent, or one sub-field or all sub-fields absent
SubRecords ==
    {Prune(FullRecord, drop) :
        drop \in SUBSET TopFields \cup {{f} : f \in SubFields} \cup {SubFields}}

Records == SubRecords \cup {BadResume}

JobTexts == {<<>>, Chars("  "), Chars("python go rust"), Chars("Ann dev")}

DensityTexts == {<<>>, Chars("java javascript"), Chars("a b  c")}

AtsTexts == CountTexts \cup {Chars("JavaScript and MySQL, GitHub")}

(***************************************************************************)
(* Direct calls of the keyword functions of helpers.py.                    *)
(***************************************************************************)
\* count_keywords keeping its counts between calls in a dict of the module
CountCall_Accumulates(r) ==
    /\ pc[r] = "received" /\ route[r] = "count_keywords"
    /\ LET counts == CountKeywords(args[r].text, args[r].keywords)
           kept(k) == IF \E q \in Reqs \ {r} :
                             /\ pc[q] = "done" /\ route[q] = "count_keywords"
                             /\ k \in DOMAIN loc[q].counts
                      THEN LET q == CHOOSE q \in Reqs \ {r} :
                                        /\ pc[q] = "done" /\ route[q] = "count_keywords"
                                        /\ k \in DOMAIN loc[q].counts
                           IN  loc[q].counts[k]
                      ELSE 0
       IN  loc' = [loc EXCEPT ![r] = [counts |-> [k \in DOMAIN counts |-> counts[k] + kept(k)]]]
    /\ pc' = [pc EXCEPT ![r] = "done"]
    /\ UNCHANGED <<route, args, aiLog, convLog, resp, served, outputDir, uploads>>

ReceiveCount(r) ==
    \E t \in CountTexts, ks \in SeqsUpTo(Keywords, MaxKeywords) :
        Arrive(r, "count_keywords", [text |-> t, keywords |-> ks])

CountCall(r) ==
    /\ pc[r] = "received" /\ route[r] = "count_keywords"
    /\ loc' = [loc EXCEPT ![r] = [counts |-> CountKeywords(args[r].text, args[r].keywords)]]
    /\ pc' = [pc EXCEPT ![r] = "done"]
    /\ UNCHANGED <<route, args, aiLog, convLog, resp, served, outputDir, uploads>>

ReceiveDensity(r) ==
    \E t \in DensityTexts, k \in Keywords \cup {Chars("A")} :
        Arrive(r, "get_keyword_density", [text |-> t, keyword |-> k])

DensityCall(r) ==
    /\ pc[r] = "received" /\ route[r] = "get_keyword_density"
    /\ loc' = [loc EXCEPT ![r] = [density |-> GetKeywordDensity(args[r].text, args[r].keyword)]]
    /\ pc' = [pc EXCEPT ![r] = "done"]
    /\ UNCHANGED <<route, args, aiLog, convLog, resp, served, outputDir, uploads>>

ReceiveAtsKeywords(r) ==
    \E t \in AtsTexts : Arrive(r, "extract_ats_keywords", [resume_text |-> t])

AtsKeywordsCall(r) ==
    /\ pc[r] = "received" /\ route[r] = "extract_ats_keywords"
    /\ loc' = [loc EXCEPT ![r] = [found_keywords |-> ExtractAtsKeywords(args[r].resume_text)]]
    /\ pc' = [pc EXCEPT ![r] = "done"]
    /\ UNCHANGED <<route, args, aiLog, convLog, resp, served, outputDir, uploads>>

ReceiveJobMatch(r) ==
    \E d \in Records, j \in JobTexts :
        Arrive(r, "generate_job_match_score", [resume_data |-> d, job_description |-> j])

JobMatchCall(r) ==
    /\ pc[r] = "received" /\ route[r] = "generate_job_match_score"
    /\ loc' = [loc EXCEPT ![r] =
                 [match_score |-> GenerateJobMatchScore(args[r].resume_data,
                                                        args[r].job_description)]]
    /\ pc' = [pc EXCEPT ![r] = "done"]
    /\ UNCHANGED <<route, args, aiLog, convLog, resp, served, outputDir, uploads>>

(***************************************************************************)
(* DocumentGenerator.generate_docx called directly: doc.save writes the    *)
(* file as the last statement of the try block.                            *)
(***************************************************************************)
ReceiveDocx(r) ==
    \E d \in Records, p \in DocxPaths :
        Arrive(r, "generate_docx", [resume_data |-> d, output_path |-> p])

DocxCall(r) ==
    /\ pc[r] = "received" /\ route[r] = "generate_docx"
    /\ LET ret == GenerateDocx(args[r].resume_data)
       IN  /\ loc' = [loc EXCEPT ![r] = [ret |-> ret]]
           /\ outputDir' = IF Raised(ret) THEN outputDir
                           ELSE [outputDir EXCEPT ![args[r].output_path] = DocxOf(ret.val)]
    /\ pc' = [pc EXCEPT ![r] = "done"]
    /\ UNCHANGED <<route, args, aiLog, convLog, resp, served, uploads>>

(***************************************************************************)
(* PDFParser.parse_resume called on a PDF whose text the extractor has     *)
(* returned.                                                               *)
(***************************************************************************)
ReceiveParse(r) == \E t \in ParseTexts : Arrive(r, "parse_resume", [text |-> t])

ParseCall(r) ==
    /\ pc[r] = "received" /\ route[r] = "parse_resume"
    /\ loc' = [loc EXCEPT ![r] = [parsed_data |-> ParsedData(args[r].text)]]
    /\ pc' = [pc EXCEPT ![r] = "done"]
    /\ UNCHANGED <<route, args, aiLog, convLog, resp, served, outputDir, uploads>>

(***************************************************************************)
(* The segmenters and the keyword functions called one after the other,    *)
(* two results being held at a time.                                       *)
(***************************************************************************)
TwiceCalls ==
    {[route |-> rt, args |-> [text |-> t]] :
        rt \in {"extract_sections", "extract_text_sections"}, t \in SampleTexts}
    \cup {[route |-> "count_keywords", args |-> [text |-> t, keywords |-> <<k>>]] :
            t \in {Chars("Python is great, python rocks"), Chars("c++x")},
            k \in {Chars("python"), Chars("C++")}}
    \cup {[route |-> "get_keyword_density", args |-> [text |-> t, keyword |-> Chars("java")]] :
            t \in DensityTexts}
    \cup {[route |-> "extract_ats_keywords", args |-> [resume_text |-> t]] :
            t \in {Chars("c++x"), Chars("JavaScript and MySQL, GitHub")}}
    \cup {[route |-> "generate_job_match_score",
           args |-> [resume_data |-> d, job_description |-> Chars("python go rust")]] :
            d \in {FullRecord, EmptyResume, BadResume}}

ReceiveAgain(r) == \E c \in TwiceCalls : Arrive(r, c.route, c.args)

(***************************************************************************)
(* The request is over; the next one may use its slot.                     *)
(***************************************************************************)
Finish(r) ==
    /\ pc[r] = "done"
    /\ pc' = [pc EXCEPT ![r] = "idle"]
    /\ route' = [route EXCEPT ![r] = "none"]
    /\ args' = [args EXCEPT ![r] = None]
    /\ loc' = [loc EXCEPT ![r] = None]
    /\ aiLog' = [aiLog EXCEPT ![r] = <<>>]
    /\ convLog' = [convLog EXCEPT ![r] = <<>>]
    /\ resp' = [resp EXCEPT ![r] = NoResp]
    /\ served' = [served EXCEPT ![r] = NoFile]
    /\ UNCHANGED <<outputDir, uploads>>

(***************************************************************************)
(* Spec: one request at a time, of any route.  SpecGen: two generate-      *)
(* resume requests in progress together.                                   *)
(***************************************************************************)
Next ==
    \/ ReceiveAts(1) \/ AtsRoute(1)
    \/ ReceiveEnhance(1) \/ EnhanceRoute(1)
    \/ ReceiveBullets(1) \/ BulletsRoute(1)
    \/ ReceiveSuggest(1) \/ SuggestRoute(1)
    \/ ReceiveKeywords(1) \/ KeywordsCall(1)
    \/ ReceiveGenerate(1) \/ GenerateRoute(1) \/ GenerateSend(1)
    \/ ReceiveUpload(1) \/ UploadRoute(1)
    \/ Finish(1)

Spec == Init /\ [][Next]_vars

NextGen ==
    \E r \in Reqs : ReceiveGenerate(r) \/ GenerateRoute(r) \/ GenerateSend(r) \/ Finish(r)

SpecGen == Init /\ [][NextGen]_vars

\* SpecText: the segmenters called on resume texts
NextText ==
    \/ ReceiveSections(1) \/ SectionsCall(1)
    \/ ReceiveTextSections(1) \/ TextSectionsCall(1)
    \/ Finish(1)

SpecText == Init /\ [][NextText]_vars

\* SpecScores: compare_scores called on pairs of scores
NextScores == \E r \in Reqs : ReceiveCompare(r) \/ CompareCall(r) \/ Finish(r)

SpecScores == Init /\ [][NextScores]_vars

\* SpecCalls: the two operations called directly, on every completion
NextCalls ==
    \/ ReceiveScoreCall(1) \/ ScoreCall(1)
    \/ ReceiveBulletsCall(1) \/ BulletsCall(1)
    \/ Finish(1)

SpecCalls == Init /\ [][NextCalls]_vars

\* SpecWords: the keyword functions called directly
NextWords ==
    \/ ReceiveCount(1) \/ CountCall(1)
    \/ ReceiveDensity(1) \/ DensityCall(1)
    \/ ReceiveAtsKeywords(1) \/ AtsKeywordsCall(1)
    \/ ReceiveJobMatch(1) \/ JobMatchCall(1)
    \/ Finish(1)

SpecWords == Init /\ [][NextWords]_vars

\* SpecParse: parse_resume called on extracted texts
NextParse == ReceiveParse(1) \/ ParseCall(1) \/ Finish(1)

SpecParse == Init /\ [][NextParse]_vars

\* SpecTwice: the segmenters and the keyword functions, two calls at a time
NextTwice ==
    \E r \in Reqs :
        \/ ReceiveAgain(r)
        \/ SectionsCall(r) \/ TextSectionsCall(r)
        \/ CountCall(r) \/ DensityCall(r) \/ AtsKeywordsCall(r) \/ JobMatchCall(r)
        \/ Finish(r)

SpecTwice == Init /\ [][NextTwice]_vars

\* SpecRecords: generate_job_match_score and generate_docx called on records
NextRecords ==
    \/ ReceiveJobMatch(1) \/ JobMatchCall(1)
    \/ ReceiveDocx(1) \/ DocxCall(1)
    \/ Finish(1)

SpecRecords == Init /\ [][NextRecords]_vars

(***************************************************************************)
(* Properties.                                                             *)
(***************************************************************************)
\* the result an operation gives for an input and a call outcome
OpResult(op, arg, call) ==
    CASE op = "calculate_ats_score" -> CalculateAtsScore(call)
      [] op = "analyze_keywords" -> AnalyzeKeywords(call)
      [] op = "enhance_resume_content" -> EnhanceResumeContent(arg, call)
      [] op = "enhance_bullet_points" -> EnhanceBulletPoints(arg, call)
      [] op = "suggest_improvements" -> SuggestImprovements(call)

\* the bracket pair an operation searches for
OpSite(op) ==
    IF op \in {"enhance_bullet_points", "suggest_improvements"} THEN "brackets" ELSE "braces"

\* the input an operation of request r was called with
OpArg(r, op) ==
    CASE op = "enhance_resume_content" -> args[r].resume_data
      [] op = "enhance_bullet_points" -> args[r].bullet_points
      [] OTHER -> None

EmptyCompletion == CallText(<<>>)
UnparseableCompletions(site) == {c \in AICalls : Kind(c, site) = "badspan"}

\* C1: calculate_ats_score never raises: whatever its one AI call gives (an
\* error, a text with no {...} span, a span that does not parse, a span that
\* parses) it returns a value, and unless the span parsed that value is the
\* fixed default result, whose score is 65.
C1_ScoreNeverRaises ==
    \A r \in Reqs : \A i \in DOMAIN aiLog[r] :
        LET e == aiLog[r][i]
        IN  e.op = "calculate_ats_score" =>
              /\ ~Raised(e.ret)
              /\ e.kind # "parsed" =>
                   /\ e.ret.val = DefaultScore
                   /\ e.ret.val.obj["score"] = Num(65)

\* C1 witness: an enhance-resume request whose first scoring call failed and
\* whose second returned a span that does not parse; both gave the default.
C1_Witness ==
    \E r \in Reqs :
        /\ Len(aiLog[r]) = 3
        /\ aiLog[r][1].op = "calculate_ats_score" /\ aiLog[r][1].kind = "error"
        /\ aiLog[r][3].op = "calculate_ats_score" /\ aiLog[r][3].kind = "badspan"
        /\ aiLog[r][1].ret = Return(DefaultScore)
        /\ aiLog[r][3].ret = Return(DefaultScore)

C2_Fallback ==
    \A r \in Reqs : \A i \in DOMAIN aiLog[r] :
        LET e == aiLog[r][i]
        IN  e.op = "enhance_resume_content" =>
              /\ ~Raised(e.ret)
              /\ e.kind # "parsed" => e.ret.val = args[r].resume_data

C2_InputKept ==
    \A r \in Reqs :
        (route[r] = "enhance" /\ route'[r] = "enhance") => args'[r] = args[r]

\* C2: enhance_resume_content never raises; when the AI call fails, the text
\* has no {...} span or the span does not parse, it returns the caller's
\* record, equal to the input field for field; and no step of an
\* enhance-resume request changes the input record.
C2_EnhanceFallsBackToInput == []C2_Fallback /\ [][C2_InputKept]_vars

\* C2 witness: the enhancement call returned a span that does not parse and the
\* operation returned the submitted record, which still is what was submitted.
C2_Witness ==
    \E r \in Reqs :
        /\ Len(aiLog[r]) >= 2
        /\ aiLog[r][2].op = "enhance_resume_content"
        /\ aiLog[r][2].kind = "badspan"
        /\ aiLog[r][2].ret = Return(ResumeB)
        /\ args[r].resume_data = ResumeB

\* C3: for a non-empty resume_data the enhance-resume request ends in a
\* success response, whatever the three AI calls give, also when a scoring
\* completion parses as an object without a numeric score.
C3_EnhanceAlwaysSucceeds ==
    \A r \in Reqs :
        (route[r] = "enhance" /\ pc[r] = "done" /\ Truthy(args[r].resume_data))
            => resp[r].code = 200

\* C4: suggest_improvements never raises; a text with no [...] span gives the
\* canned list of five suggestions, a span that does not parse gives the
\* empty list, and a span that parses is returned as it is.
C4_SuggestAsymmetry ==
    \A r \in Reqs : \A i \in DOMAIN aiLog[r] :
        LET e == aiLog[r][i]
        IN  e.op = "suggest_improvements" =>
              /\ ~Raised(e.ret)
              /\ e.kind = "nospan" => (e.ret.val = CannedSuggestions /\ Len(e.ret.val.arr) = 5)
              /\ e.kind = "badspan" => e.ret.val = Arr(<<>>)
              /\ e.kind = "parsed" => e.ret.val = e.payload

\* C4 witness: a suggest-improvements request whose completion had a [...]
\* span that does not parse, answered with the empty list.
C4_Witness ==
    \E r \in Reqs :
        /\ route[r] = "suggest" /\ pc[r] = "done"
        /\ Len(aiLog[r]) = 1
        /\ aiLog[r][1].kind = "badspan"
        /\ resp[r] = Success(Arr(<<>>))

\* C5 as stated: for each AI-backed operation the result of a failed AI call
\* equals the result for an empty completion and for an unparseable one.
C5_ErrorLikeEmptyAndUnparseable ==
    \A r \in Reqs : \A i \in DOMAIN aiLog[r] :
        LET e == aiLog[r][i]
        IN  e.kind = "error" =>
              /\ e.ret = OpResult(e.op, OpArg(r, e.op), EmptyCompletion)
              /\ \A c \in UnparseableCompletions(OpSite(e.op)) :
                    e.ret = OpResult(e.op, OpArg(r, e.op), c)

\* C5 amended: for calculate_ats_score, enhance_resume_content,
\* enhance_bullet_points and analyze_keywords the result of a failed AI call
\* equals the result for an empty completion and for an unparseable one; for
\* suggest_improvements it equals the result for an unparseable completion
\* (the empty list) and differs from the result for an empty completion (the
\* canned list of five).
C5_ErrorLikeUnparseable ==
    \A r \in Reqs : \A i \in DOMAIN aiLog[r] :
        LET e == aiLog[r][i]
            empty == OpResult(e.op, OpArg(r, e.op), EmptyCompletion)
        IN  e.kind = "error" =>
              /\ \A c \in UnparseableCompletions(OpSite(e.op)) :
                    e.ret = OpResult(e.op, OpArg(r, e.op), c)
              /\ e.op # "suggest_improvements" => e.ret = empty
              /\ e.op = "suggest_improvements" =>
                    /\ e.ret = Return(Arr(<<>>))
                    /\ empty = Return(CannedSuggestions)

\* C5 witness: a suggest-improvements request whose AI call failed.
C5_Witness ==
    \E r \in Reqs :
        /\ Len(aiLog[r]) = 1
        /\ aiLog[r][1].op = "suggest_improvements"
        /\ aiLog[r][1].kind = "error"
        /\ pc[r] = "done"

\* the fallback values of each call site
Fallbacks(op, arg) ==
    CASE op = "calculate_ats_score" -> {DefaultScore}
      [] op = "analyze_keywords" -> {EmptyKeywords}
      [] op = "enhance_resume_content" -> {arg}
      [] op = "enhance_bullet_points" -> {arg}
      [] op = "suggest_improvements" -> {CannedSuggestions, Arr(<<>>)}

\* C6: all or nothing: what an AI-backed operation returns is exactly the
\* parsed payload of the completion or exactly a fallback of its call site,
\* never a value that has fields of both.
C6_AllOrNothing ==
    \A r \in Reqs : \A i \in DOMAIN aiLog[r] :
        LET e == aiLog[r][i]
        IN  /\ ~Raised(e.ret)
            /\ IF e.kind = "parsed"
               THEN e.ret.val = e.payload
               ELSE e.ret.val \in Fallbacks(e.op, OpArg(r, e.op))

\* C6 witness: a scoring completion that parsed as the object with no field
\* was returned as that object, with no field of the default added.
C6_Witness ==
    \E r \in Reqs :
        /\ route[r] = "ats" /\ pc[r] = "done"
        /\ Len(aiLog[r]) = 1
        /\ aiLog[r][1].kind = "parsed"
        /\ aiLog[r][1].payload = Obj(EmptyDict)
        /\ resp[r] = Success(Obj(EmptyDict))

Ops(log) == [i \in DOMAIN log |-> log[i].op]
IsPrefix(p, q) == Len(p) <= Len(q) /\ SubSeq(q, 1, Len(p)) = p
FlowCalls == <<"calculate_ats_score", "enhance_resume_content", "calculate_ats_score">>

\* C7: no retries: a request of a one-operation route makes at most one AI
\* call, also when the call fails or gives unusable text; generate-resume
\* runs the converter at most once and makes no AI call; enhance-resume
\* makes its calls in the order score, enhance, score and, once it has its
\* response and was not rejected, has made exactly these three.
C7_NoRetries ==
    \A r \in Reqs :
        /\ route[r] \in {"ats", "bullets", "suggest", "keywords"} => Len(aiLog[r]) <= 1
        /\ route[r] \in {"ats", "bullets", "suggest"} /\ pc[r] = "done" /\ resp[r].code # 400
              => Len(aiLog[r]) = 1
        /\ route[r] = "keywords" /\ pc[r] = "done" => Len(aiLog[r]) = 1
        /\ route[r] = "enhance" => IsPrefix(Ops(aiLog[r]), FlowCalls)
        /\ route[r] = "enhance" /\ pc[r] = "done" /\ resp[r].code # 400
              => Ops(aiLog[r]) = FlowCalls
        /\ route[r] = "generate" => Len(convLog[r]) <= 1 /\ aiLog[r] = <<>>
        /\ route[r] # "generate" => convLog[r] = <<>>

\* C7 witness: an enhance-resume request all of whose AI calls failed has its
\* response after exactly three calls.
C7_Witness ==
    \E r \in Reqs :
        /\ route[r] = "enhance" /\ pc[r] = "done"
        /\ Len(aiLog[r]) = 3
        /\ \A i \in 1..3 : aiLog[r][i].kind = "error"

\* C8: whatever the interleaving of two generate-resume requests, the
\* document a caller receives was rendered from that caller's resume_data.
C8_OwnDocument ==
    \A r \in Reqs :
        (route[r] = "generate" /\ pc[r] = "done" /\ resp[r].code = 200)
            => (served[r] # NoFile /\ served[r].data = args[r].resume_data)

\* C9: generate-resume with format pdf whose conversion failed still
\* succeeds and serves the DOCX rendered before the conversion; the filename
\* and the content type of the response both say DOCX.
C9_FailedConversionSaysDocx ==
    \A r \in Reqs :
        (/\ route[r] = "generate" /\ pc[r] \in {"sending", "done"}
         /\ args[r].format = "pdf"
         /\ convLog[r] # <<>> /\ convLog[r][1] # "ok")
            => /\ resp[r].code = 200
               /\ outputDir[resp[r].path].fmt = "docx"
               /\ EndsWith(resp[r].filename, ".docx")
               /\ resp[r].media_type = DOCX_MIME

\* the inputs the routes reject
InvalidInput(r) ==
    CASE route[r] \in {"ats", "suggest"} -> BlankForm(args[r].resume_text)
      [] route[r] = "enhance" -> ~Truthy(args[r].resume_data)
      [] route[r] = "generate" ->
            args[r].format \notin {"docx", "pdf"} \/ ~Truthy(args[r].resume_data)
      [] route[r] = "upload" -> ~EndsWith(args[r].filename, ".pdf")
      [] OTHER -> FALSE

C10_Rejected ==
    \A r \in Reqs :
        (pc[r] = "done" /\ InvalidInput(r))
            => (resp[r].code = 400 /\ aiLog[r] = <<>> /\ convLog[r] = <<>>)

C10_NothingChanged ==
    \A r \in Reqs :
        (resp[r].code # 400 /\ resp'[r].code = 400)
            => /\ aiLog' = aiLog /\ aiLog[r] = <<>>
               /\ convLog' = convLog
               /\ outputDir' = outputDir
               /\ uploads' = uploads

\* C10: a request with an empty or blank resume text, an empty resume data,
\* an upload name that does not end in .pdf or a format other than docx and
\* pdf gets status 400, and the step that rejects it makes no AI call, runs
\* no converter, and leaves the output directory and the uploads directory
\* as they were.
C10_RejectionChangesNothing == []C10_Rejected /\ [][C10_NothingChanged]_vars

\* C10 witness: a generate-resume request rejected with 400 while the output
\* directory holds a document of an earlier request.
C10_Witness ==
    \E r \in Reqs :
        /\ route[r] = "generate" /\ pc[r] = "done"
        /\ resp[r].code = 400
        /\ ~Truthy(args[r].resume_data)
        /\ \E p \in Paths : outputDir[p] # NoFile

\* C11: a failure of the PDF text extractor is not absorbed: parse_resume
\* raises, it returns no parsed resume and no default, and the upload-resume
\* request ends with status 500, never with a success response.
C11_ExtractionFailureIs500 ==
    /\ Raised(ParseResume("raised"))
    /\ \A r \in Reqs :
          (route[r] = "upload" /\ pc[r] = "done" /\ loc[r] = [extract |-> "raised"])
              => (resp[r].code = 500 /\ "body" \notin DOMAIN resp[r])

\* C11 witness: an upload named *.pdf whose extraction failed, answered 500.
C11_Witness ==
    \E r \in Reqs :
        /\ route[r] = "upload" /\ pc[r] = "done"
        /\ EndsWith(args[r].filename, ".pdf")
        /\ loc[r] = [extract |-> "raised"]
        /\ resp[r].code = 500

\* a segmenter call of request r that has returned
Segmented(r) ==
    pc[r] = "done" /\ route[r] \in {"extract_sections", "extract_text_sections"}

\* the section was triggered (line scan) or its header was found (anchored)
Triggered(r, s) ==
    IF route[r] = "extract_sections"
    THEN \E i \in DOMAIN SplitLines(args[r].text) : LineSection(SplitLines(args[r].text)[i]) = s
    ELSE \E i \in 0..Len(args[r].text) :
            FirstAlt(args[r].text, i, section_patterns[s].headers) >= 0

\* C12: for any text both segmenters return a map whose keys are exactly
\* summary, experience, education, skills, projects and certifications, and
\* a section that was never matched or triggered has the empty string.
C12_SixKeys ==
    \A r \in Reqs :
        Segmented(r) =>
            /\ DOMAIN loc[r].sections =
                 {"summary", "experience", "education", "skills", "projects", "certifications"}
            /\ \A s \in DOMAIN loc[r].sections :
                 ~Triggered(r, s) => loc[r].sections[s] = <<>>

\* C12 witness: the anchored extraction of a text with an education header
\* and no other: education has content, the other five keys are empty.
C12_Witness ==
    \E r \in Reqs :
        /\ Segmented(r) /\ route[r] = "extract_text_sections"
        /\ loc[r].sections["education"] = ContentLine
        /\ \A s \in SectionNames \ {"education"} :
              ~Triggered(r, s) /\ loc[r].sections[s] = <<>>

\* the lines of a line-scan call and what the scan takes them for
InputLines(r) == SplitLines(args[r].text)
IsBoundary(r, i) == LineSection(InputLines(r)[i]) # "none"
IsContent(r, i) == ~IsBoundary(r, i) /\ StripWs(InputLines(r)[i]) # <<>>
\* the lines of a section's value
ValueLines(r, s) ==
    IF loc[r].sections[s] = <<>> THEN <<>> ELSE SplitLines(loc[r].sections[s])

\* C13: the line scan is boundary-triggered: no line of a section's value is
\* a boundary line; a line before the first boundary is in no section; a
\* boundary line of section S followed by two content lines and then by the
\* end of the text or by a boundary, with no later boundary of S, gives S
\* exactly the two lines joined by a newline.
C13_BoundaryTriggered ==
    \A r \in Reqs :
        (pc[r] = "done" /\ route[r] = "extract_sections") =>
            LET lines == InputLines(r)
                boundaries == {i \in DOMAIN lines : IsBoundary(r, i)}
            IN  /\ \A s \in SectionNames : \A k \in DOMAIN ValueLines(r, s) :
                      /\ LineSection(ValueLines(r, s)[k]) = "none"
                      /\ \E i \in DOMAIN lines :
                            /\ lines[i] = ValueLines(r, s)[k]
                            /\ \E b \in boundaries : b < i
                /\ \A b \in boundaries :
                      (/\ b + 2 <= Len(lines)
                       /\ IsContent(r, b + 1) /\ IsContent(r, b + 2)
                       /\ (b + 2 = Len(lines) \/ IsBoundary(r, b + 3))
                       /\ \A j \in boundaries : j > b => LineSection(lines[j]) # LineSection(lines[b]))
                          => loc[r].sections[LineSection(lines[b])] =
                                lines[b + 1] \o Chars("\n") \o lines[b + 2]

\* C13 witness: a content line, the Education line, two content lines and
\* the Employment line: education is the two lines, the first line and the
\* Education line are in no section.
C13_Witness ==
    \E r \in Reqs :
        /\ pc[r] = "done" /\ route[r] = "extract_sections"
        /\ Len(InputLines(r)) = 6
        /\ ~IsBoundary(r, 1) /\ IsBoundary(r, 2) /\ IsContent(r, 3) /\ IsContent(r, 4)
        /\ IsBoundary(r, 5)
        /\ loc[r].sections["education"] = Chars("  BSc \nAWS")
        /\ loc[r].sections["experience"] = ContentLine

\* C14: the anchored extraction gives each section the text after the first
\* occurrence of one of its header synonyms up to the next occurrence of a
\* header synonym of any other section, or the end of the text, trimmed; no
\* value extends past another section's header synonym.
C14_StopsAtAnyOtherHeader ==
    \A r \in Reqs :
        (pc[r] = "done" /\ route[r] = "extract_text_sections") =>
            \A s \in SectionNames :
                LET text == args[r].text
                    p == section_patterns[s]
                    at == {i \in 0..Len(text) : FirstAlt(text, i, p.headers) >= 0}
                    start == FirstAlt(text, Min(at), p.headers)
                    others == UNION {{section_patterns[t].headers[h] :
                                        h \in DOMAIN section_patterns[t].headers} :
                                     t \in SectionNames \ {s}}
                    stop == Min({j \in start..Len(text) :
                                   \/ j = Len(text)
                                   \/ \E o \in others : MatchWordsAt(text, j, o) >= 0})
                IN  at # {} =>
                      /\ loc[r].sections[s] = StripWs(SubSeq(text, start + 1, stop))
                      /\ \A o \in others :
                            \A i \in 0..Len(loc[r].sections[s]) :
                                MatchWordsAt(loc[r].sections[s], i, o) < 0

\* C15: every header synonym of the anchored expression of a section S,
\* alone on a line shorter than 50 characters, is a boundary of S for the
\* line scan: the content line after it becomes the value of S.
C15_ScanKnowsEveryHeader ==
    \A r \in Reqs :
        (pc[r] = "done" /\ route[r] = "extract_sections") =>
            \A s \in SectionNames : \A h \in DOMAIN section_patterns[s].headers :
                LET header == JoinWords(section_patterns[s].headers[h])
                IN  (Len(header) < 50 /\ args[r].text = JoinLines(<<header, ContentLine>>))
                        => (LineSection(header) = s /\ loc[r].sections[s] = ContentLine)

\* the string k occurs in the string s
StrContains(s, k) ==
    \E i \in 0..(Len(s) - Len(k)) : SubSeq(s, i + 1, i + Len(k)) = k

\* a compare_scores call of request r that has returned or raised
Compared(r) == pc[r] = "done" /\ route[r] = "compare_scores"
Gain(r) == args[r].enhanced_score.num - args[r].original_score.num
Messages(r) == loc[r].improvements.val.arr

\* the tier a gain belongs to, the highest first
TierOf(diff) ==
    IF diff > 30 THEN 1
    ELSE IF 15 < diff /\ diff <= 30 THEN 2
    ELSE IF 5 < diff /\ diff <= 15 THEN 3
    ELSE IF 0 <= diff /\ diff <= 5 THEN 4
    ELSE 5

\* the messages have the shape of tier t for the gain diff
TierShape(t, msgs, diff) ==
    LET delta == ToString(diff) \o ".0"
    IN  CASE t = 1 -> /\ Len(msgs) = 2
                      /\ StrContains(msgs[1].str, "Excellent improvement! Score increased by "
                                                 \o delta \o " points (")
                      /\ msgs[2].str = "Your resume is now highly optimized for ATS systems"
          [] t = 2 -> /\ Len(msgs) = 2
                      /\ msgs[1].str = "Great improvement! Score increased by " \o delta \o " points"
                      /\ msgs[2].str = "Resume is much more ATS-compatible now"
          [] t = 3 -> /\ Len(msgs) = 2
                      /\ msgs[1].str = "Good improvement! Score increased by " \o delta \o " points"
                      /\ msgs[2].str = "Resume quality has been enhanced"
          [] t = 4 -> /\ Len(msgs) = 1
                      /\ msgs[1].str = "Score adjusted by " \o delta \o " points"
          [] t = 5 -> /\ Len(msgs) = 1
                      /\ StrContains(msgs[1].str, "maintained from original version")
                      /\ ~StrContains(msgs[1].str, ToString(0 - diff))

(***************************************************************************)
(* C16: compare_scores puts the gain diff = enhanced - original in exactly *)
(* one tier.  A gain above 30, one above 15 up to 30 and one above 5 up to *)
(* 15 each give two messages; a gain from 0 to 5 gives the one message     *)
(* "adjusted by {diff} points"; a loss gives the one message "maintained   *)
(* from original version", which does not show the gain.  The messages     *)
(* have the shape of the tier of the gain and of no other tier.            *)
(***************************************************************************)
C16_OneTier ==
    \A r \in Reqs :
        Compared(r) =>
            /\ ~Raised(loc[r].improvements)
            /\ {t \in 1..5 : TierShape(t, Messages(r), Gain(r))} = {TierOf(Gain(r))}

\* a gain of exactly 30 is answered in the second tier and a loss in the last
C16_Witness ==
    /\ Compared(1) /\ Gain(1) = 30 /\ Len(Messages(1)) = 2
    /\ Compared(2) /\ Gain(2) < 0 /\ Len(Messages(2)) = 1

\* compare_scores(60, 95) has returned to request r
Compared6095(r) ==
    /\ Compared(r)
    /\ args[r].original_score = Num(60)
    /\ args[r].enhanced_score = Num(95)

(***************************************************************************)
(* C17, as stated: compare_scores(60, 95) has a gain of 35 and returns     *)
(* two messages, the first of which contains "35.0" and "133.3%".          *)
(***************************************************************************)
C17_Contains133 ==
    \A r \in Reqs :
        Compared6095(r) =>
            /\ Gain(r) = 35
            /\ ~Raised(loc[r].improvements)
            /\ Len(Messages(r)) = 2
            /\ StrContains(Messages(r)[1].str, "35.0")
            /\ StrContains(Messages(r)[1].str, "133.3%")

(***************************************************************************)
(* C17, amended: compare_scores(60, 95) has a gain of 35 and returns two   *)
(* messages, the first of which contains "35.0" and "58.3%", the gain as a *)
(* percentage of the original score.                                       *)
(***************************************************************************)
C17_Contains58 ==
    \A r \in Reqs :
        Compared6095(r) =>
            /\ Gain(r) = 35
            /\ ~Raised(loc[r].improvements)
            /\ Len(Messages(r)) = 2
            /\ StrContains(Messages(r)[1].str, "35.0")
            /\ StrContains(Messages(r)[1].str, "(58.3%)")

C17_Witness == \E r \in Reqs : Compared6095(r) /\ Len(Messages(r)) = 2

\* the call returns; the percentage, shown in the first tier only, is
\* diff/original*100 for an original score above zero and 0 otherwise
C18_Returns ==
    \A r \in Reqs :
        Compared(r) =>
            /\ ~Raised(loc[r].improvements)
            /\ Len(Messages(r)) >= 1
            /\ Gain(r) > 30 =>
                 LET o == args[r].original_score.num
                 IN  StrContains(Messages(r)[1].str,
                              IF o > 0 THEN "(" \o Fmt1(Gain(r) * 100, o) \o "%)" ELSE "(0.0%)")

\* the same scores give the same messages
C18_SameForSame ==
    \A r, q \in Reqs :
        Compared(r) /\ Compared(q) /\ args[r] = args[q] => loc[r] = loc[q]

\* the step of the call gives the caller the result and changes nothing else
C18_OnlyReturns ==
    \A r \in Reqs :
        (route[r] = "compare_scores" /\ pc[r] = "received" /\ pc'[r] = "done") =>
            /\ args' = args /\ route' = route
            /\ aiLog' = aiLog /\ convLog' = convLog /\ resp' = resp
            /\ served' = served /\ outputDir' = outputDir /\ uploads' = uploads
            /\ \A q \in Reqs \ {r} : loc'[q] = loc[q] /\ pc'[q] = pc[q]

(***************************************************************************)
(* C18: compare_scores never fails.  The percentage is diff/original*100   *)
(* only for an original score above zero and 0 for every other one, so     *)
(* nothing is divided by zero; the call only returns its messages, and the *)
(* same scores give the same messages.                                     *)
(***************************************************************************)
C18_NeverFailsNoEffect ==
    /\ [](C18_Returns /\ C18_SameForSame)
    /\ [][C18_OnlyReturns]_vars

\* two calls with an original score of zero and a gain above 30
C18_Witness ==
    /\ Compared(1) /\ Compared(2)
    /\ args[1] = args[2]
    /\ args[1].original_score = Num(0) /\ Gain(1) > 30
    /\ StrContains(Messages(1)[1].str, "(0.0%)")

\* a direct call of request r that has returned or raised
Called(r) == pc[r] = "done" /\ route[r] \in {"calculate_ats_score", "enhance_bullet_points"}

\* the brackets the call site of request r searches for
OpenOf(r) == IF route[r] = "calculate_ats_score" THEN "{" ELSE "["
CloseOf(r) == IF route[r] = "calculate_ats_score" THEN "}" ELSE "]"

\* the fallback of the call site of request r
FallbackOf(r) ==
    IF route[r] = "calculate_ats_score" THEN DefaultScore ELSE args[r].bullet_points

\* no opening and no closing bracket of the call site is in the text q
Noise(r, q) == \A i \in DOMAIN q : q[i] \notin {OpenOf(r), CloseOf(r)}

\* the text q is one well-formed object (array) of the call site
WellFormed(r, q) == q # <<>> /\ q[1] = OpenOf(r) /\ JsonLoads(q).ok

\* the text is noise, one well-formed object from a to b, and noise
OneObject(r, text, a, b) ==
    /\ Noise(r, SubSeq(text, 1, a - 1))
    /\ WellFormed(r, SubSeq(text, a, b))
    /\ Noise(r, SubSeq(text, b + 1, Len(text)))

\* the text is noise, a well-formed object from a to b, text without a
\* bracket, a well-formed object from c to d, and noise
TwoObjects(r, text, a, b, c, d) ==
    /\ Noise(r, SubSeq(text, 1, a - 1))
    /\ WellFormed(r, SubSeq(text, a, b))
    /\ c > b + 1
    /\ Noise(r, SubSeq(text, b + 1, c - 1))
    /\ WellFormed(r, SubSeq(text, c, d))
    /\ Noise(r, SubSeq(text, d + 1, Len(text)))

(***************************************************************************)
(* C19: the span searched in a completion goes from the first opening      *)
(* bracket of the call site to the last closing bracket.  A completion     *)
(* with noise free of these brackets before and after one well-formed      *)
(* object gives that object, parsed; a completion without a span gives the *)
(* fallback of the call site; a completion with two well-formed objects    *)
(* and text between them gives the fallback, as the span from the first to *)
(* the last bracket does not parse.                                        *)
(***************************************************************************)
C19_GreedySpan ==
    \A r \in Reqs :
        (Called(r) /\ loc[r].response.exc = "none") =>
            LET text == loc[r].response.text
                opens == Positions(text, OpenOf(r))
                closes == Positions(text, CloseOf(r))
                hasSpan == opens # {} /\ closes # {} /\ Min(opens) < Max(closes)
                span == SubSeq(text, Min(opens), Max(closes))
            IN  /\ ~Raised(loc[r].result)
                /\ ~hasSpan => loc[r].result.val = FallbackOf(r)
                /\ hasSpan =>
                     loc[r].result.val =
                        IF JsonLoads(span).ok THEN JsonLoads(span).val ELSE FallbackOf(r)
                /\ \A a, b \in 1..Len(text) :
                     OneObject(r, text, a, b)
                        => loc[r].result.val = JsonLoads(SubSeq(text, a, b)).val
                /\ \A a, b \in 1..Len(text) :
                     (Noise(r, SubSeq(text, 1, a - 1)) /\ WellFormed(r, SubSeq(text, a, b)))
                        => \A c, d \in (b + 2)..Len(text) :
                              TwoObjects(r, text, a, b, c, d)
                                 => loc[r].result.val = FallbackOf(r)

\* two objects with a word between them, answered with the default score
C19_Witness ==
    \E r \in Reqs :
        /\ Called(r) /\ route[r] = "calculate_ats_score"
        /\ loc[r].response = [exc |-> "none", text |-> <<"{", "}", "w", "{", "}">>]
        /\ loc[r].result = Return(DefaultScore)

(***************************************************************************)
(* C20: enhance_bullet_points never raises, and when the AI call fails,    *)
(* the completion has no [...] span or the span does not parse, it returns *)
(* the sequence of bullets it was given, unchanged.                        *)
(***************************************************************************)
C20_BulletsFallBackToInput ==
    \A r \in Reqs :
        (pc[r] = "done" /\ route[r] = "enhance_bullet_points") =>
            /\ ~Raised(loc[r].result)
            /\ LET text == loc[r].response.text
                   opens == Positions(text, "[")
                   closes == Positions(text, "]")
                   hasSpan == opens # {} /\ closes # {} /\ Min(opens) < Max(closes)
               IN  IF loc[r].response.exc # "none" THEN loc[r].result.val = args[r].bullet_points
                   ELSE IF ~hasSpan THEN loc[r].result.val = args[r].bullet_points
                   ELSE IF ~JsonLoads(SubSeq(text, Min(opens), Max(closes))).ok
                        THEN loc[r].result.val = args[r].bullet_points
                   ELSE TRUE

\* two bullets given back after a span that does not parse
C20_Witness ==
    \E r \in Reqs :
        /\ pc[r] = "done" /\ route[r] = "enhance_bullet_points"
        /\ Len(args[r].bullet_points.arr) = 2
        /\ loc[r].response = [exc |-> "none", text |-> <<"[", "w", "w", "]">>]
        /\ loc[r].result = Return(args[r].bullet_points)

(***************************************************************************)
(* C21: analyze_keywords never raises.  When the AI call fails, when the   *)
(* completion has no {...} span and when the span does not parse, it       *)
(* returns the record whose five fields resume_keywords, job_keywords,     *)
(* matched_keywords, missing_keywords and unique_resume_keywords are empty *)
(* sequences.                                                              *)
(***************************************************************************)
C21_KeywordsFallBackToEmpty ==
    \A r \in Reqs : \A i \in DOMAIN aiLog[r] :
        aiLog[r][i].op = "analyze_keywords" =>
            /\ ~Raised(aiLog[r][i].ret)
            /\ aiLog[r][i].kind \in {"error", "nospan", "badspan"} =>
                 /\ IsObj(aiLog[r][i].ret.val)
                 /\ DOMAIN aiLog[r][i].ret.val.obj =
                       {"resume_keywords", "job_keywords", "matched_keywords",
                        "missing_keywords", "unique_resume_keywords"}
                 /\ \A k \in DOMAIN aiLog[r][i].ret.val.obj :
                       aiLog[r][i].ret.val.obj[k] = Arr(<<>>)

\* an analyze_keywords call whose span did not parse
C21_Witness ==
    \E r \in Reqs :
        /\ Len(aiLog[r]) = 1
        /\ aiLog[r][1].op = "analyze_keywords"
        /\ aiLog[r][1].kind = "badspan"
        /\ aiLog[r][1].ret = Return(EmptyKeywords)

(***************************************************************************)
(* C23: generate_job_match_score returns 0.0 whenever the job description  *)
(* is empty or has no whitespace-separated token; otherwise it returns the *)
(* share of the lower-cased job tokens that are among the lower-cased      *)
(* tokens of the resume text, in percent, and the result lies in 0..100.   *)
(* The code rounds the percentage to two decimals, and it builds the       *)
(* resume text before it counts the job tokens, so the property is stated  *)
(* with the rounding and for the records whose fields have their declared  *)
(* types.  Scores are in hundredths.                                       *)
(***************************************************************************)
JobTokens(job_description) == Range(Words(Lower(job_description)))

\* the tokens of name, skills and the JSON text of experience of a well-typed record
ResumeTokens(d) ==
    LET name == DictGet(DictGet(d, "personal_info", Obj(EmptyDict)), "name", Str(""))
        skills == DictGet(d, "skills", Arr(<<>>))
    IN  Range(Words(Lower(Chars(name.str))))
        \cup {Lower(Chars(skills.arr[i].str)) : i \in DOMAIN skills.arr}
        \cup Range(Words(Lower(Dumps(DictGet(d, "experience", Arr(<<>>)), Chars("\"")))))

JobMatched(r) == pc[r] = "done" /\ route[r] = "generate_job_match_score"

C23_WitnessBlank ==
    \E r \in Reqs :
        /\ JobMatched(r)
        /\ args[r].resume_data \in SubRecords
        /\ args[r].job_description = Chars("  ")
        /\ loc[r].match_score = Return(0)

WholeWordAt(text, p, keyword) ==
    /\ p + Len(keyword) - 1 <= Len(text)
    /\ SubSeq(text, p, p + Len(keyword) - 1) = keyword
    /\ ~IsWordAt(text, p - 1)
    /\ ~IsWordAt(text, p + Len(keyword))

WholeWordCount(text, keyword) ==
    Cardinality({p \in DOMAIN text : WholeWordAt(Lower(text), p, Lower(keyword))})

Counted(r) == pc[r] = "done" /\ route[r] = "count_keywords"

C24_WholeWordCounts ==
    \A r \in Reqs :
        Counted(r) =>
            /\ DOMAIN loc[r].counts = Range(args[r].keywords)
            /\ \A k \in Range(args[r].keywords) :
                   k # <<>> => loc[r].counts[k] = WholeWordCount(args[r].text, k)

\* the counts of the letters-only keywords are the whole-word counts
C24_LettersOnlyCounts ==
    \A r \in Reqs :
        Counted(r) =>
            /\ DOMAIN loc[r].counts = Range(args[r].keywords)
            /\ \A k \in Range(args[r].keywords) :
                   (k # <<>> /\ Range(k) \subseteq WordChars) =>
                       loc[r].counts[k] = WholeWordCount(args[r].text, k)

C24_Python2 ==
    \E r \in Reqs :
        /\ Counted(r)
        /\ args[r].text = Chars("Python is great, python rocks")
        /\ args[r].keywords = <<Chars("python")>>
        /\ loc[r].counts = (Chars("python") :> 2)

\* "C++" between blanks is counted 0 times
C24_CppAloneNotCounted ==
    \E r \in Reqs :
        /\ Counted(r)
        /\ args[r].text = Chars("I know C++ well")
        /\ args[r].keywords = <<Chars("C++")>>
        /\ loc[r].counts = (Chars("C++") :> 0)

(***************************************************************************)
(* C26: absence of any subset of the recognised fields of a resume record  *)
(* (personal_info, summary, experience, education, skills, projects,       *)
(* certifications, and the sub-fields of their entries) is treated as      *)
(* empty and never raises: generate_job_match_score and generate_docx      *)
(* complete without error for every such record.                           *)
(***************************************************************************)
DocxCalled(r) == pc[r] = "done" /\ route[r] = "generate_docx"

C26_AbsentFieldsNeverRaise ==
    \A r \in Reqs :
        /\ (JobMatched(r) /\ args[r].resume_data \in SubRecords) =>
               ~Raised(loc[r].match_score)
        /\ (DocxCalled(r) /\ args[r].resume_data \in SubRecords) =>
               /\ ~Raised(loc[r].ret)
               /\ outputDir[args[r].output_path] = DocxOf(args[r].resume_data)

\* a record whose entries have no sub-field has been rendered
C26_Witness ==
    \E r \in Reqs :
        /\ DocxCalled(r)
        /\ args[r].resume_data = Prune(FullRecord, SubFields)
        /\ outputDir[args[r].output_path] = DocxOf(args[r].resume_data)

\* the record without any field has been scored
C26_WitnessScored ==
    \E r \in Reqs :
        /\ JobMatched(r)
        /\ args[r].resume_data = EmptyResume
        /\ args[r].job_description = Chars("Ann dev")
        /\ loc[r].match_score = Return(0)

(***************************************************************************)
(* C22: determinism, no hidden state.  Running either segmentation         *)
(* algorithm or any keyword function (count_keywords, get_keyword_density, *)
(* extract_ats_keywords, generate_job_match_score) twice on the same       *)
(* input, in any order and with any other calls in between, yields         *)
(* identical results: two calls of the same function with the same         *)
(* arguments that have both returned hold equal results, whatever calls    *)
(* have been made before them.                                             *)
(***************************************************************************)
PureRoutes == {c.route : c \in TwiceCalls}

C22_CallsLeaveNoTrace ==
    [][\A r \in Reqs :
           (pc[r] = "received" /\ pc'[r] = "done") =>
               /\ \A q \in Reqs \ {r} : loc'[q] = loc[q]
               /\ outputDir' = outputDir /\ uploads' = uploads]_vars

Parsed(r) == pc[r] = "done" /\ route[r] = "parse_resume"

DigitCount(q) == Cardinality({i \in DOMAIN q : q[i] \in DigitChars})

C25_SevenLinesParsed ==
    \A r \in Reqs :
        (Parsed(r) /\ args[r].text = SevenLines) =>
            LET data == loc[r].parsed_data
            IN  /\ data.email = Chars("john@x.com")
                /\ DigitCount(data.phone) >= 10
                /\ Contains(data.sections["education"], Chars("BS Computer Science"))
                /\ Contains(data.sections["skills"], Chars("Python, Go"))
                /\ \A s \in DOMAIN data.sections :
                       \A line \in {Chars("John Doe"), Chars("john@x.com"), Chars("555-123-4567")} :
                           ~Contains(data.sections[s], line)

C25_Witness ==
    \E r \in Reqs :
        /\ Parsed(r)
        /\ args[r].text = SevenLines
        /\ loc[r].parsed_data.phone = Chars("555-123-4567")
        /\ loc[r].parsed_data.sections["education"] = Chars("BS Computer Science")
        /\ loc[r].parsed_data.sections["skills"] = Chars("Python, Go")
        /\ loc[r].parsed_data.word_count = 11

(***************************************************************************)
(* C27: after any upload-resume request has finished, whether parsing      *)
(* succeeded or the extractor failed, the temporary file written for the   *)
(* request under the uploads directory no longer exists: no sequence of    *)
(* requests leaves temp files behind.  The handler removes the file with   *)
(* os.unlink after parse_resume has returned and has no finally clause, so *)
(* the file of a request whose extractor raised stays.                     *)
(***************************************************************************)
C27_NoTempFileLeft == uploads = 0

\* a request whose parsing succeeded leaves the uploads directory as it was
C27_SuccessRemovesFile ==
    [][\A r \in Reqs :
           (route'[r] = "upload" /\ pc[r] = "received" /\ pc'[r] = "done"
            /\ resp'[r].code = 200) => uploads' = uploads]_vars

\* the extractor raised: the response is 500 and a temp file is left
C27_FileLeftAfterFailure ==
    \E r \in Reqs :
        /\ route[r] = "upload" /\ pc[r] = "done"
        /\ loc[r].extract = "raised"
        /\ resp[r].code = 500
        /\ uploads = 1

(***************************************************************************)
(* C28: in the line scan, when the boundary of a section is triggered more *)
(* than once, content is replaced and never appended: the final value of a *)
(* section is the non-blank lines collected during its last activation     *)
(* that collected at least one line; an activation that collects no line   *)
(* leaves the value committed before unchanged, and blank lines are never  *)
(* part of a value.                                                        *)
(***************************************************************************)
Scanned(r) == pc[r] = "done" /\ route[r] = "extract_sections"

\* the lines at the indices js, in the order of the text
RECURSIVE InOrder(_, _)
InOrder(lines, js) ==
    IF js = {} THEN <<>> ELSE <<lines[Min(js)]>> \o InOrder(lines, js \ {Min(js)})

\* the non-blank lines between the boundary line b and the next boundary line
Collected(lines, b) ==
    InOrder(lines, {j \in b + 1..Len(lines) :
                       /\ \A k \in b + 1..j : LineSection(lines[k]) = "none"
                       /\ StripWs(lines[j]) # <<>>})

\* the activations of section s that collected a line
FullActivations(lines, s) ==
    {b \in DOMAIN lines : LineSection(lines[b]) = s /\ Collected(lines, b) # <<>>}

C28_LastFullActivationWins ==
    \A r \in Reqs :
        Scanned(r) =>
            LET lines == InputLines(r)
            IN  \A s \in SectionNames :
                    /\ loc[r].sections[s] =
                         IF FullActivations(lines, s) = {} THEN <<>>
                         ELSE JoinLines(Collected(lines, Max(FullActivations(lines, s))))
                    /\ \A k \in DOMAIN ValueLines(r, s) : StripWs(ValueLines(r, s)[k]) # <<>>

\* Education collects a line and a blank line, collects another line the
\* second time and nothing the third time: the value is the second line
C28_Witness ==
    \E r \in Reqs :
        /\ Scanned(r)
        /\ InputLines(r) = <<Chars("Education"), Chars("  BSc "), <<>>, Chars("Education"),
                             ContentLine, Chars("Education")>>
        /\ loc[r].sections["education"] = ContentLine

(***************************************************************************)
(* C29: in the line scan, a short line with keywords of more than one      *)
(* section activates exactly one section, the first in the order           *)
(* education, experience, skills, projects, certifications, summary; a     *)
(* line of 50 or more characters (lower-cased, trimmed) never acts as a    *)
(* boundary whatever keywords it has, so it is added as content to the     *)
(* active section if there is one.                                         *)
(***************************************************************************)
\* the sections a keyword of which is in the line
KeywordSections(line) ==
    {s \in SectionNames :
        \E k \in DOMAIN section_keywords[s] :
            Contains(StripWs(Lower(line)), section_keywords[s][k])}

FixedOrder == <<"education", "experience", "skills", "projects", "certifications", "summary">>

\* the state of the loop after the first n lines
ScanTo(lines, n) ==
    ScanLines(SubSeq(lines, 1, n),
              [sections |-> [s \in SectionNames |-> <<>>],
               current_section |-> "none",
               section_content |-> <<>>])

C29_FirstSectionShortLine ==
    \A r \in Reqs :
        Scanned(r) =>
            LET lines == InputLines(r)
            IN  /\ loc[r].sections =
                     SaveSection(ScanTo(lines, Len(lines)).sections,
                                 ScanTo(lines, Len(lines)).current_section,
                                 ScanTo(lines, Len(lines)).section_content)
                /\ \A i \in DOMAIN lines :
                     LET before == ScanTo(lines, i - 1)
                         after == ScanTo(lines, i)
                         hits == KeywordSections(lines[i])
                     IN  /\ (hits # {} /\ Len(StripWs(Lower(lines[i]))) < 50) =>
                                /\ after.current_section =
                                     FixedOrder[Min({n \in DOMAIN FixedOrder : FixedOrder[n] \in hits})]
                                /\ after.section_content = <<>>
                         /\ Len(StripWs(Lower(lines[i]))) >= 50 =>
                                /\ after.current_section = before.current_section
                                /\ after.sections = before.sections
                                /\ after.section_content =
                                     IF before.current_section # "none"
                                     THEN Append(before.section_content, lines[i])
                                     ELSE <<>>

\* "Skills and Education" starts education, the long line goes into it;
\* "Experience Summary" starts experience
C29_Witness ==
    \E r \in Reqs :
        /\ Scanned(r)
        /\ InputLines(r) = <<Chars("Skills and Education"), ContentLine, LongLine,
                             Chars("Experience Summary"), Chars("  BSc ")>>
        /\ loc[r].sections["education"] = ContentLine \o Chars("\n") \o LongLine
        /\ loc[r].sections["experience"] = Chars("  BSc ")
        /\ loc[r].sections["skills"] = <<>> /\ loc[r].sections["summary"] = <<>>

(***************************************************************************)
(* C30: when the AI service fails on every call of an enhance-resume       *)
(* request, the response is a success whose enhanced_data equals the       *)
(* submitted resume_data, whose original_score and enhanced_score are both *)
(* 65, whose improvements is the single message "Score adjusted by 0.0     *)
(* points", and whose suggestions are the canned suggestions of the        *)
(* default score.                                                          *)
(***************************************************************************)
\* an enhance-resume request that has its response, all its AI calls failed
EnhancedWithoutAI(r) ==
    /\ route[r] = "enhance" /\ pc[r] = "done"
    /\ aiLog[r] # <<>>
    /\ \A i \in DOMAIN aiLog[r] : aiLog[r][i].kind = "error"

C30_AllCallsFail ==
    \A r \in Reqs :
        EnhancedWithoutAI(r) =>
            /\ Len(aiLog[r]) = 3
            /\ resp[r] =
                 Success(Obj([enhanced_data |-> args[r].resume_data,
                              original_score |-> Num(65),
                              enhanced_score |-> Num(65),
                              improvements |-> Arr(<<Str("Score adjusted by 0.0 points")>>),
                              suggestions |-> DefaultScore.obj["suggestions"]]))

C30_Witness ==
    \E r \in Reqs :
        /\ EnhancedWithoutAI(r)
        /\ args[r].resume_data = ResumeB
        /\ resp[r].code = 200
        /\ resp[r].body.obj["enhanced_data"] = ResumeB
        /\ resp[r].body.obj["improvements"] = Arr(<<Str("Score adjusted by 0.0 points")>>)

=============================================================================
